---- MODULE Spec2Model ----
(***************************************************************************)
(* Model of the latency_sysdump comparator (latency_sysdiff.py): the path  *)
(* flattener, the structural-change detector, the severity classifier and  *)
(* the diff engine; and of the collector (latency_sysdump.py): the command *)
(* runner, its parsers and the collection run.                             *)
(*                                                                         *)
(* Python strings are sequences of one-character strings, so that prefix,  *)
(* substring, split, lower-casing and code-point ordering are computed as  *)
(* the interpreter computes them.  JSON values are tagged records.         *)
(***************************************************************************)
EXTENDS Integers, Sequences, FiniteSets, TLC

VARIABLES
    pc,            \* position of the run: "start", "returned", "raised" for
                   \* diff_dumps; "flatten", "flattened" for flatten;
                   \* "severity", "classified" for severity_of;
                   \* "parse", "parsed" for parse_int;
                   \* "main", "exited" for main;
                   \* "numeric_map", "mapped" for parse_numeric_map;
                   \* "sh", "ran", "sh raised" for sh;
                   \* "collect", "written", "aborted" for the collector
    old,           \* diff_dumps: the old document
    new,           \* diff_dumps: the new document
    only_changed,  \* diff_dumps: the filter flag
    f_old,         \* diff_dumps local: flatten(old)
    f_new,         \* diff_dumps local: flatten(new)
    diffs,         \* diff_dumps: the returned DiffResult
    fl_d,          \* flatten: the value tree passed in
    fl_ret,        \* flatten: the returned flattened map
    sv_path,       \* severity_of: the leaf address passed in
    sv_old,        \* severity_of: the old value passed in
    sv_new,        \* severity_of: the new value passed in
    sv_context,    \* severity_of: the context mapping passed in
    sv_ret,        \* severity_of: the returned (severity, note)
    pi_v,          \* parse_int: the value passed in
    pi_ret,        \* parse_int: the returned integer or None
    exit_on_critical, \* main: args.exit_on_critical
    md_given,      \* main: whether args.md names a file
    ncrit,         \* main: the count print_console returned
    console,       \* the lines printed to the console, in order
    md_report,     \* the lines of the Markdown report, in order
    exit_status,   \* main: the exit status of the process
    nm_text,       \* parse_numeric_map: the text passed in
    nm_ret,        \* parse_numeric_map: the returned mapping
    sh_run,        \* sh: what running the command does
    sh_ret,        \* sh: the returned mapping
    env,           \* collector: the files and tools of the host
    step,          \* collector: the number of categories collected
    data,          \* collector: the snapshot document under construction
    raw_blobs,     \* collector: the raw outputs, name to text
    calls          \* collector: the command lines run, in order

vars == <<pc, old, new, only_changed, f_old, f_new, diffs,
          fl_d, fl_ret, sv_path, sv_old, sv_new, sv_context, sv_ret,
          pi_v, pi_ret, exit_on_critical, md_given, ncrit, console, md_report,
          exit_status, nm_text, nm_ret, sh_run, sh_ret,
          env, step, data, raw_blobs, calls>>

-----------------------------------------------------------------------------
(* Strings *)

\* The printable ASCII characters in ascending code-point order (the double
\* quote, the backslash and the backquote, which no key or path uses, left out).
Charset == <<
    " ", "!", "#", "$", "%", "&", "'", "(", ")", "*", "+", ",", "-", ".", "/",
    "0", "1", "2", "3", "4", "5", "6", "7", "8", "9", ":", ";", "<", "=", ">", "?",
    "@", "A", "B", "C", "D", "E", "F", "G", "H", "I", "J", "K", "L", "M", "N", "O",
    "P", "Q", "R", "S", "T", "U", "V", "W", "X", "Y", "Z", "[", "]", "^", "_",
    "a", "b", "c", "d", "e", "f", "g", "h", "i", "j", "k", "l", "m", "n", "o",
    "p", "q", "r", "s", "t", "u", "v", "w", "x", "y", "z", "{", "|", "}", "~"
>>

CharsetSet == {Charset[i] : i \in 1..Len(Charset)}

\* Position of a character in Charset: order-isomorphic to ord(c).
Ord == [c \in CharsetSet |-> CHOOSE i \in 1..Len(Charset) : Charset[i] = c]

\* s < t in Python's ordering of str (lexicographic by code point).
RECURSIVE StrLessFrom(_, _, _)
StrLessFrom(s, t, i) ==
    IF i > Len(t) THEN FALSE
    ELSE IF i > Len(s) THEN TRUE
    ELSE IF s[i] = t[i] THEN StrLessFrom(s, t, i + 1)
    ELSE Ord[s[i]] < Ord[t[i]]

StrLess(s, t) == StrLessFrom(s, t, 1)

StrLeq(s, t) == s = t \/ StrLess(s, t)

\* sub occurs in s at index i
match_at(s, sub, i) ==
    /\ i >= 1
    /\ i + Len(sub) - 1 <= Len(s)
    /\ \A j \in 1..Len(sub) : s[i + j - 1] = sub[j]

\* str.startswith / str.endswith
startswith(s, pre) == match_at(s, pre, 1)
endswith(s, suf) == match_at(s, suf, Len(s) - Len(suf) + 1)

\* Index of the first occurrence of sub in s from index i on, 0 when there is none.
RECURSIVE find_from(_, _, _)
find_from(s, sub, i) ==
    IF i + Len(sub) - 1 > Len(s) THEN 0
    ELSE IF match_at(s, sub, i) THEN i
    ELSE find_from(s, sub, i + 1)

find(s, sub) == find_from(s, sub, 1)

\* sub in s
contains(s, sub) == find(s, sub) # 0

\* s.split(sep, 1)[0] and s.split(sep, 1)[1] (the latter for s containing sep)
split_at(s, at) == IF at = 0 THEN s ELSE SubSeq(s, 1, at - 1)
split_before(s, sep) == split_at(s, find(s, sep))
split_after(s, sep) == SubSeq(s, find(s, sep) + Len(sep), Len(s))

IsUpper(c) == Ord[c] >= Ord["A"] /\ Ord[c] <= Ord["Z"]

\* str.lower() on ASCII
lower(s) == [i \in 1..Len(s) |->
               IF IsUpper(s[i]) THEN Charset[Ord[s[i]] + (Ord["a"] - Ord["A"])] ELSE s[i]]

IsSpace(c) == c = " "

\* str.strip() (the only whitespace of the alphabet is the blank)
RECURSIVE lstrip(_)
lstrip(s) == IF s # <<>> /\ IsSpace(Head(s)) THEN lstrip(Tail(s)) ELSE s

RECURSIVE rstrip(_)
rstrip(s) == IF s # <<>> /\ IsSpace(s[Len(s)]) THEN rstrip(SubSeq(s, 1, Len(s) - 1)) ELSE s

strip(s) == rstrip(lstrip(s))

-----------------------------------------------------------------------------
(* JSON values as the interpreter holds them *)

\* None, bool, int, str, list, dict.  A dict keeps its items in insertion
\* order as a sequence of <<key, value>> pairs with distinct keys.
None == [t |-> "NoneType", v |-> {}]
Bool(x) == [t |-> "bool", v |-> x]
IntVal(x) == [t |-> "int", v |-> x]
Str(x) == [t |-> "str", v |-> x]
List(x) == [t |-> "list", v |-> x]
Dict(x) == [t |-> "dict", v |-> x]

True == Bool(TRUE)
False == Bool(FALSE)
EmptyDict == Dict(<<>>)

isinstance_dict(x) == x.t = "dict"
isinstance_list(x) == x.t = "list"
IsNumeric(x) == x.t \in {"int", "bool"}

\* The integer a bool or int stands for in comparisons (True is 1, False is 0).
NumericValue(x) == IF x.t = "bool" THEN (IF x.v THEN 1 ELSE 0) ELSE x.v

dict_keys(x) == {x.v[i][1] : i \in 1..Len(x.v)}

\* x[k] for a key of the dict
dict_item(x, k) == x.v[CHOOSE i \in 1..Len(x.v) : x.v[i][1] = k][2]

\* x.get(k): None when the key is missing
dict_get(x, k) == IF k \in dict_keys(x) THEN dict_item(x, k) ELSE None

\* bool(x): None, False, 0, "", [] and {} are falsy
truthy(x) ==
    CASE x.t = "NoneType" -> FALSE
      [] x.t = "bool" -> x.v
      [] x.t = "int" -> x.v # 0
      [] OTHER -> x.v # <<>>

\* x or {}
or_empty_dict(x) == IF truthy(x) THEN x ELSE EmptyDict

\* a == b on scalars: None equals only None, a str only an equal str, and
\* bool and int compare by number.
py_eq(x, y) ==
    CASE IsNumeric(x) /\ IsNumeric(y) -> NumericValue(x) = NumericValue(y)
      [] x.t = y.t -> x.v = y.v
      [] OTHER -> FALSE

\* Decimal digits of a natural number, as str(n) prints them.
Digits == <<"0", "1", "2", "3", "4", "5", "6", "7", "8", "9">>

RECURSIVE NatStr(_)
NatStr(n) == IF n < 10 THEN <<Digits[n + 1]>> ELSE NatStr(n \div 10) \o <<Digits[(n % 10) + 1]>>

IntStr(n) == IF n < 0 THEN <<"-">> \o NatStr(-n) ELSE NatStr(n)

\* str(x) for a scalar
str(x) ==
    CASE x.t = "str" -> x.v
      [] x.t = "int" -> IntStr(x.v)
      [] x.t = "bool" -> IF x.v THEN <<"T", "r", "u", "e">> ELSE <<"F", "a", "l", "s", "e">>
      [] x.t = "NoneType" -> <<"N", "o", "n", "e">>

-----------------------------------------------------------------------------
(* flatten *)

\* A flattened map is a function from address strings to scalars; m1 updated
\* with m2 (dict.update) takes m2's value where both define an address.
EmptyMap == [k \in {} |-> None]
update(m1, m2) == [k \in DOMAIN m1 \cup DOMAIN m2 |-> IF k \in DOMAIN m2 THEN m2[k] ELSE m1[k]]

\* Mutant of dict_child_key: the separator is written under an empty prefix too.
dict_child_key_always_dotted(prefix, k) == prefix \o <<".">> \o k

\* f"{prefix}.{k}" if prefix else str(k)
dict_child_key(prefix, k) == IF prefix # <<>> THEN prefix \o <<".">> \o k ELSE k

\* Mutant of list_child_key: the dotted form key.index of the other flattener.
list_child_key_dotted(prefix, i) == prefix \o <<".">> \o IntStr(i)

\* f"{prefix}[{i}]" for the Python index i
list_child_key(prefix, i) == prefix \o <<"[">> \o IntStr(i) \o <<"]">>

RECURSIVE flatten(_, _)
RECURSIVE flatten_dict_loop(_, _, _, _)
RECURSIVE flatten_list_loop(_, _, _, _)
RECURSIVE flatten_dict_loop_until_null(_, _, _, _)

\* Mutant of flatten_dict_loop: the loop ends at the first null value.
flatten_dict_loop_until_null(items, prefix, i, acc) ==
    IF i > Len(items) \/ items[i][2] = None THEN acc
    ELSE flatten_dict_loop_until_null(items, prefix, i + 1,
             update(acc, flatten(items[i][2], dict_child_key(prefix, items[i][1]))))


\* for k, v in d.items(): res.update(flatten(v, key)), from item i on
flatten_dict_loop(items, prefix, i, acc) ==
    IF i > Len(items) THEN acc
    ELSE flatten_dict_loop(items, prefix, i + 1,
             update(acc, flatten(items[i][2], dict_child_key(prefix, items[i][1]))))

\* for i, v in enumerate(d): res.update(flatten(v, key)), from element i on
flatten_list_loop(elems, prefix, i, acc) ==
    IF i > Len(elems) THEN acc
    ELSE flatten_list_loop(elems, prefix, i + 1,
             update(acc, flatten(elems[i], list_child_key(prefix, i - 1))))

flatten(x, prefix) ==
    IF isinstance_dict(x) THEN flatten_dict_loop(x.v, prefix, 1, EmptyMap)
    ELSE IF isinstance_list(x) THEN flatten_list_loop(x.v, prefix, 1, EmptyMap)
    ELSE [k \in {prefix} |-> x]

-----------------------------------------------------------------------------
(* The string literals of latency_sysdiff.py *)

\* The string literals of latency_sysdiff.py, as character sequences.
Lit == [
    CRITICAL |-> <<"C","R","I","T","I","C","A","L">>,  \* "CRITICAL"
    WARNING |-> <<"W","A","R","N","I","N","G">>,  \* "WARNING"
    INFO |-> <<"I","N","F","O">>,  \* "INFO"
    absent_paren |-> <<"(","a","b","s","e","n","t",")">>,  \* "(absent)"
    no_differences_detected |-> <<"N","o"," ","d","i","f","f","e","r","e","n","c","e","s"," ","d","e","t","e","c","t","e","d",".">>,  \* "No differences detected."
    latency_sysdiff_report |-> <<"#"," ","L","a","t","e","n","c","y"," ","S","y","s","d","i","f","f"," ","R","e","p","o","r","t">>,  \* "# Latency Sysdiff Report"
    kernel_uname_release |-> <<"k","e","r","n","e","l",".","u","n","a","m","e",".","r","e","l","e","a","s","e">>,  \* "kernel.uname.release"
    kernel_cmdline |-> <<"k","e","r","n","e","l",".","c","m","d","l","i","n","e">>,  \* "kernel.cmdline"
    timekeeping_clocksource_current |-> <<"t","i","m","e","k","e","e","p","i","n","g",".","c","l","o","c","k","s","o","u","r","c","e","_","c","u","r","r","e","n","t">>,  \* "timekeeping.clocksource_current"
    cpu_topology_smt_active |-> <<"c","p","u","_","t","o","p","o","l","o","g","y",".","s","m","t","_","a","c","t","i","v","e">>,  \* "cpu_topology.smt_active"
    cpu_topology_per_cpu_governors_dot |-> <<"c","p","u","_","t","o","p","o","l","o","g","y",".","p","e","r","_","c","p","u","_","g","o","v","e","r","n","o","r","s",".">>,  \* "cpu_topology.per_cpu_governors."
    performance |-> <<"p","e","r","f","o","r","m","a","n","c","e">>,  \* "performance"
    cpu_topology_lscpu_hash |-> <<"c","p","u","_","t","o","p","o","l","o","g","y",".","l","s","c","p","u","_","h","a","s","h">>,  \* "cpu_topology.lscpu_hash"
    memory_transparent_hugepage_enabled |-> <<"m","e","m","o","r","y",".","t","r","a","n","s","p","a","r","e","n","t","_","h","u","g","e","p","a","g","e",".","e","n","a","b","l","e","d">>,  \* "memory.transparent_hugepage.enabled"
    irq_smp_affinity_list_dot |-> <<"i","r","q",".","s","m","p","_","a","f","f","i","n","i","t","y","_","l","i","s","t",".">>,  \* "irq.smp_affinity_list."
    network_interfaces_dot |-> <<"n","e","t","w","o","r","k",".","i","n","t","e","r","f","a","c","e","s",".">>,  \* "network.interfaces."
    dot_ethtool_features_dot |-> <<".","e","t","h","t","o","o","l",".","f","e","a","t","u","r","e","s",".">>,  \* ".ethtool.features."
    generic_receive_offload |-> <<"g","e","n","e","r","i","c","-","r","e","c","e","i","v","e","-","o","f","f","l","o","a","d">>,  \* "generic-receive-offload"
    large_receive_offload |-> <<"l","a","r","g","e","-","r","e","c","e","i","v","e","-","o","f","f","l","o","a","d">>,  \* "large-receive-offload"
    tcp_segmentation_offload |-> <<"t","c","p","-","s","e","g","m","e","n","t","a","t","i","o","n","-","o","f","f","l","o","a","d">>,  \* "tcp-segmentation-offload"
    tso |-> <<"t","s","o">>,  \* "tso"
    gso |-> <<"g","s","o">>,  \* "gso"
    lro |-> <<"l","r","o">>,  \* "lro"
    rx_checksumming |-> <<"r","x","-","c","h","e","c","k","s","u","m","m","i","n","g">>,  \* "rx-checksumming"
    tx_checksumming |-> <<"t","x","-","c","h","e","c","k","s","u","m","m","i","n","g">>,  \* "tx-checksumming"
    scatter_gather |-> <<"s","c","a","t","t","e","r","-","g","a","t","h","e","r">>,  \* "scatter-gather"
    dot_ethtool_rings_dot |-> <<".","e","t","h","t","o","o","l",".","r","i","n","g","s",".">>,  \* ".ethtool.rings."
    dot_ethtool_channels_dot |-> <<".","e","t","h","t","o","o","l",".","c","h","a","n","n","e","l","s",".">>,  \* ".ethtool.channels."
    dot_ethtool_coalesce_dot |-> <<".","e","t","h","t","o","o","l",".","c","o","a","l","e","s","c","e",".">>,  \* ".ethtool.coalesce."
    toolchain_libstdcxx_max_glibcxx |-> <<"t","o","o","l","c","h","a","i","n",".","l","i","b","s","t","d","c","x","x","_","m","a","x","_","g","l","i","b","c","x","x">>,  \* "toolchain.libstdcxx_max_glibcxx"
    services_sysctl_irqbalance_state |-> <<"s","e","r","v","i","c","e","s","_","s","y","s","c","t","l",".","i","r","q","b","a","l","a","n","c","e",".","s","t","a","t","e">>,  \* "services_sysctl.irqbalance.state"
    memory_overcommit_memory |-> <<"m","e","m","o","r","y",".","o","v","e","r","c","o","m","m","i","t","_","m","e","m","o","r","y">>,  \* "memory.overcommit_memory"
    memory_swappiness |-> <<"m","e","m","o","r","y",".","s","w","a","p","p","i","n","e","s","s">>,  \* "memory.swappiness"
    memory_ksm_dot |-> <<"m","e","m","o","r","y",".","k","s","m",".">>,  \* "memory.ksm."
    dot_mtu |-> <<".","m","t","u">>,  \* ".mtu"
    toolchain_dot |-> <<"t","o","o","l","c","h","a","i","n",".">>,  \* "toolchain."
    network_routes_dot |-> <<"n","e","t","w","o","r","k",".","r","o","u","t","e","s",".">>,  \* "network.routes."
    services_sysctl_sysctl_dot |-> <<"s","e","r","v","i","c","e","s","_","s","y","s","c","t","l",".","s","y","s","c","t","l",".">>,  \* "services_sysctl.sysctl."
    timekeeping_ptp_devices |-> <<"t","i","m","e","k","e","e","p","i","n","g",".","p","t","p","_","d","e","v","i","c","e","s">>,  \* "timekeeping.ptp_devices"
    containers_dot |-> <<"c","o","n","t","a","i","n","e","r","s",".">>,  \* "containers."
    governor_ne_performance |-> <<"g","o","v","e","r","n","o","r"," ","!","="," ","p","e","r","f","o","r","m","a","n","c","e">>,  \* "governor != performance"
    cpu_topology_changed |-> <<"C","P","U"," ","t","o","p","o","l","o","g","y"," ","c","h","a","n","g","e","d">>,  \* "CPU topology changed"
    ring_size_reduced |-> <<"r","i","n","g"," ","s","i","z","e"," ","r","e","d","u","c","e","d">>,  \* "ring size reduced"
    channels_reduced |-> <<"c","h","a","n","n","e","l","s"," ","r","e","d","u","c","e","d">>,  \* "channels reduced"
    coalesce_changed_drastically |-> <<"c","o","a","l","e","s","c","e"," ","c","h","a","n","g","e","d"," ","d","r","a","s","t","i","c","a","l","l","y">>,  \* "coalesce changed drastically"
    libstdcxx_abi_level_changed |-> <<"l","i","b","s","t","d","c","+","+"," ","A","B","I"," ","l","e","v","e","l"," ","c","h","a","n","g","e","d">>,  \* "libstdc++ ABI level changed"
    irqbalance_change_with_irq_pinning |-> <<"i","r","q","b","a","l","a","n","c","e"," ","c","h","a","n","g","e"," ","w","i","t","h"," ","I","R","Q"," ","p","i","n","n","i","n","g">>,  \* "irqbalance change with IRQ pinning"
    interface_removed |-> <<"i","n","t","e","r","f","a","c","e"," ","r","e","m","o","v","e","d">>,  \* "interface removed"
    interface_added |-> <<"i","n","t","e","r","f","a","c","e"," ","a","d","d","e","d">>,  \* "interface added"
    present |-> <<"p","r","e","s","e","n","t">>,  \* "present"
    absent |-> <<"a","b","s","e","n","t">>,  \* "absent"
    network |-> <<"n","e","t","w","o","r","k">>,  \* "network"
    interfaces |-> <<"i","n","t","e","r","f","a","c","e","s">>,  \* "interfaces"
    irq |-> <<"i","r","q">>,  \* "irq"
    smp_affinity_list |-> <<"s","m","p","_","a","f","f","i","n","i","t","y","_","l","i","s","t">>,  \* "smp_affinity_list"
    irq_affinity_present |-> <<"i","r","q","_","a","f","f","i","n","i","t","y","_","p","r","e","s","e","n","t">>,  \* "irq_affinity_present"
    \* literals of latency_sysdump.py
    executable_not_found |-> <<"e","x","e","c","u","t","a","b","l","e"," ","n","o","t"," ","f","o","u","n","d",":"," ">>,
    error_colon |-> <<"e","r","r","o","r",":"," ">>,
    config_default_gov |-> <<"C","O","N","F","I","G","_","C","P","U","_","F","R","E","Q","_","D","E","F","A","U","L","T","_","G","O","V","_">>,
    equals_y |-> <<"=","y">>,
    clocksource |-> <<"c","l","o","c","k","s","o","u","r","c","e">>,
    cpus_allowed_list_colon |-> <<"C","p","u","s","_","a","l","l","o","w","e","d","_","l","i","s","t",":">> ]

-----------------------------------------------------------------------------
(* value_changed and parse_int *)

\* Mutant of value_changed: a null old value always counts as changed.
value_changed_or_null(x, y) == x = None \/ ~py_eq(x, y)

\* a != b
value_changed(x, y) == ~py_eq(x, y)

\* Value of a character as a digit (hexadecimal letters in both cases), 99 for
\* any other character.
DigitVal(c) ==
    IF Ord[c] >= Ord["0"] /\ Ord[c] <= Ord["9"] THEN Ord[c] - Ord["0"]
    ELSE IF Ord[c] >= Ord["a"] /\ Ord[c] <= Ord["f"] THEN Ord[c] - Ord["a"] + 10
    ELSE IF Ord[c] >= Ord["A"] /\ Ord[c] <= Ord["F"] THEN Ord[c] - Ord["A"] + 10
    ELSE 99

\* A digit string of the integer-literal grammar: digits of the base, single
\* underscores allowed between digits only.
ValidDigits(s, base) ==
    /\ s # <<>>
    /\ s[1] # "_"
    /\ s[Len(s)] # "_"
    /\ \A i \in 1..(Len(s) - 1) : s[i] = "_" => s[i + 1] # "_"
    /\ \A i \in 1..Len(s) : s[i] # "_" => DigitVal(s[i]) < base

RECURSIVE DigitsValue(_, _, _)
DigitsValue(s, base, acc) ==
    IF s = <<>> THEN acc
    ELSE IF Head(s) = "_" THEN DigitsValue(Tail(s), base, acc)
    ELSE DigitsValue(Tail(s), base, acc * base + DigitVal(Head(s)))

\* The base a literal's prefix selects (0x, 0o, 0b in either case), 10 without one.
PrefixBase(s) ==
    IF Len(s) >= 2 /\ s[1] = "0" /\ s[2] \in {"x", "X"} THEN 16
    ELSE IF Len(s) >= 2 /\ s[1] = "0" /\ s[2] \in {"o", "O"} THEN 8
    ELSE IF Len(s) >= 2 /\ s[1] = "0" /\ s[2] \in {"b", "B"} THEN 2
    ELSE 10

\* A literal with a base prefix: the digits follow the two prefix characters,
\* after at most one underscore.
after_prefix(body) == IF body # <<>> /\ body[1] = "_" THEN Tail(body) ELSE body

prefixed_literal(digs, base) ==
    IF ValidDigits(digs, base) THEN IntVal(DigitsValue(digs, base, 0)) ELSE None

\* A decimal literal: no leading zero unless every digit is zero.
decimal_literal(s) ==
    IF ValidDigits(s, 10) /\ (s[1] = "0" => \A i \in 1..Len(s) : s[i] \in {"0", "_"})
    THEN IntVal(DigitsValue(s, 10, 0))
    ELSE None

literal_in_base(s, base) ==
    IF base # 10 THEN prefixed_literal(after_prefix(SubSeq(s, 3, Len(s))), base)
    ELSE decimal_literal(s)

\* The unsigned part of int(s, 0): None on a ValueError.
unsigned_literal(s) == literal_in_base(s, PrefixBase(s))

with_sign(u, negative) ==
    IF u = None THEN None ELSE IF negative THEN IntVal(-u.v) ELSE u

signed_literal(t) ==
    IF t # <<>> /\ t[1] \in {"+", "-"}
    THEN with_sign(unsigned_literal(Tail(t)), t[1] = "-")
    ELSE unsigned_literal(t)

\* int(s, 0): surrounding blanks and one sign are accepted
int_base0(s) == signed_literal(strip(s))

\* int(str(v).strip(), 0), None on any exception
parse_int(x) == int_base0(strip(str(x)))

-----------------------------------------------------------------------------
(* severity_of *)

SEV_ORDER == [s \in {"CRITICAL", "WARNING", "INFO"} |->
                CASE s = "CRITICAL" -> 0 [] s = "WARNING" -> 1 [] s = "INFO" -> 2]

\* A rule that does not match falls through to the next one.
NoMatch == <<>>

\* lines 101-103, newv being the lower-cased new value
governor_severity(newv) ==
    IF newv # <<>> /\ newv # Lit.performance
    THEN <<"CRITICAL", Str(Lit.governor_ne_performance)>>
    ELSE <<"WARNING", None>>

\* Mutant of governor_rule: the new value is compared as written.
governor_rule_no_lower(n) == governor_severity(IF n # None THEN str(n) ELSE <<>>)

\* lines 98-103: the governor rule
governor_rule(n) == governor_severity(IF n # None THEN lower(str(n)) ELSE <<>>)

crit_feats == {
    Lit.generic_receive_offload, Lit.large_receive_offload, Lit.tcp_segmentation_offload,
    Lit.tso, Lit.gso, Lit.lro, Lit.rx_checksumming, Lit.tx_checksumming, Lit.scatter_gather }

\* Mutant of features_rule: the offload names are looked for in the whole path.
features_rule_whole_path(p) ==
    IF \E f \in crit_feats : contains(p, f)
    THEN <<"CRITICAL", None>>
    ELSE <<"WARNING", None>>

\* lines 110-119: NIC offload features
features_rule(p) ==
    LET feat == split_after(p, Lit.dot_ethtool_features_dot) IN
    IF \E f \in crit_feats : contains(feat, f)
    THEN <<"CRITICAL", None>>
    ELSE <<"WARNING", None>>

\* lines 123-125 and 128-130, po and pn being the parsed values
\* Mutant of reduction_severity: the family's note is given to every change.
reduction_severity_always_noted(po, pn, note) ==
    IF po # None /\ pn # None /\ pn.v < po.v
    THEN <<"CRITICAL", Str(note)>>
    ELSE <<"INFO", Str(note)>>

reduction_severity(po, pn, note) ==
    IF po # None /\ pn # None /\ pn.v < po.v
    THEN <<"CRITICAL", Str(note)>>
    ELSE <<"INFO", None>>

\* lines 120-130: ring and channel reductions (note is the family's note)
reduction_rule(o, n, note) == reduction_severity(parse_int(o), parse_int(n), note)

abs(x) == IF x < 0 THEN -x ELSE x

\* lines 134-136, po and pn being the parsed values
coalesce_severity(po, pn) ==
    IF po # None /\ pn # None /\ abs(pn.v - po.v) >= 32
    THEN <<"CRITICAL", Str(Lit.coalesce_changed_drastically)>>
    ELSE <<"WARNING", None>>

\* lines 131-136: drastic coalesce change
coalesce_rule(o, n) == coalesce_severity(parse_int(o), parse_int(n))

\* lines 140-143: irqbalance state under IRQ pinning
irqbalance_rule(ctx) ==
    IF truthy(dict_get(ctx, Lit.irq_affinity_present))
    THEN <<"CRITICAL", Str(Lit.irqbalance_change_with_irq_pinning)>>
    ELSE <<"WARNING", None>>

\* lines 90-143, in order
critical_rules(p, o, n, ctx) ==
    IF p = Lit.kernel_uname_release THEN <<"CRITICAL", None>>
    ELSE IF p = Lit.kernel_cmdline THEN <<"CRITICAL", None>>
    ELSE IF p = Lit.timekeeping_clocksource_current THEN <<"CRITICAL", None>>
    ELSE IF p = Lit.cpu_topology_smt_active THEN <<"CRITICAL", None>>
    ELSE IF startswith(p, Lit.cpu_topology_per_cpu_governors_dot) THEN governor_rule(n)
    ELSE IF p = Lit.cpu_topology_lscpu_hash THEN <<"CRITICAL", Str(Lit.cpu_topology_changed)>>
    ELSE IF p = Lit.memory_transparent_hugepage_enabled THEN <<"CRITICAL", None>>
    ELSE IF startswith(p, Lit.irq_smp_affinity_list_dot) THEN <<"CRITICAL", None>>
    ELSE IF startswith(p, Lit.network_interfaces_dot) /\ contains(p, Lit.dot_ethtool_features_dot)
         THEN features_rule(p)
    ELSE IF startswith(p, Lit.network_interfaces_dot) /\ contains(p, Lit.dot_ethtool_rings_dot)
         THEN reduction_rule(o, n, Lit.ring_size_reduced)
    ELSE IF startswith(p, Lit.network_interfaces_dot) /\ contains(p, Lit.dot_ethtool_channels_dot)
         THEN reduction_rule(o, n, Lit.channels_reduced)
    ELSE IF startswith(p, Lit.network_interfaces_dot) /\ contains(p, Lit.dot_ethtool_coalesce_dot)
         THEN coalesce_rule(o, n)
    ELSE IF p = Lit.toolchain_libstdcxx_max_glibcxx
         THEN <<"CRITICAL", Str(Lit.libstdcxx_abi_level_changed)>>
    ELSE IF p = Lit.services_sysctl_irqbalance_state THEN irqbalance_rule(ctx)
    ELSE NoMatch

\* lines 145-157, in order
warning_rules(p) ==
    IF p \in {Lit.memory_overcommit_memory, Lit.memory_swappiness} THEN <<"WARNING", None>>
    ELSE IF startswith(p, Lit.memory_ksm_dot) THEN <<"WARNING", None>>
    ELSE IF endswith(p, Lit.dot_mtu) /\ startswith(p, Lit.network_interfaces_dot)
         THEN <<"WARNING", None>>
    ELSE IF startswith(p, Lit.toolchain_dot) THEN <<"WARNING", None>>
    ELSE IF startswith(p, Lit.network_routes_dot) THEN <<"WARNING", None>>
    ELSE IF startswith(p, Lit.services_sysctl_sysctl_dot) THEN <<"WARNING", None>>
    ELSE NoMatch

\* Mutant of info_rules: the default is no severity of SEV_ORDER.
info_rules_unknown_default(p) ==
    IF startswith(p, Lit.timekeeping_ptp_devices) THEN <<"INFO", None>>
    ELSE IF startswith(p, Lit.network_interfaces_dot) THEN <<"INFO", None>>
    ELSE IF startswith(p, Lit.containers_dot) THEN <<"INFO", None>>
    ELSE <<"UNKNOWN", None>>

\* lines 159-166, in order, ending with the default
info_rules(p) ==
    IF startswith(p, Lit.timekeeping_ptp_devices) THEN <<"INFO", None>>
    ELSE IF startswith(p, Lit.network_interfaces_dot) THEN <<"INFO", None>>
    ELSE IF startswith(p, Lit.containers_dot) THEN <<"INFO", None>>
    ELSE <<"INFO", None>>

\* The first rule that matches decides.
first_match(c, w, i) == IF c # NoMatch THEN c ELSE IF w # NoMatch THEN w ELSE i

\* Mutant of severity_of: a leaf whose new value is null is INFO.
severity_of_absent_info(p, o, n, ctx) ==
    IF n = None THEN <<"INFO", None>>
    ELSE first_match(critical_rules(p, o, n, ctx), warning_rules(p), info_rules(p))

\* Mutant of severity_of: the warning rules are tried before the critical ones.
severity_of_warnings_first(p, o, n, ctx) ==
    first_match(warning_rules(p), critical_rules(p, o, n, ctx), info_rules(p))

\* lines 87-166
severity_of(p, o, n, ctx) ==
    first_match(critical_rules(p, o, n, ctx), warning_rules(p), info_rules(p))

-----------------------------------------------------------------------------
(* category_of and compute_irq_affinity_present *)

\* path.split(".", 1)[0] if "." in path else path
category_of(p) == IF contains(p, <<".">>) THEN split_before(p, <<".">>) ELSE p

\* A .get on a value that is no dict raises AttributeError.
Raises == [t |-> "AttributeError", v |-> {}]

\* r.get(k), Raises when the receiver r is not a dict
get_of(r, k) == IF isinstance_dict(r) THEN dict_get(r, k) ELSE Raises

\* (x or {}).get(k)
get_or_raise(x, k) == IF x = Raises THEN Raises ELSE get_of(or_empty_dict(x), k)

\* bool(aff or {}), False when computing aff raised
affinity_present(aff) == IF aff = Raises THEN FALSE ELSE truthy(or_empty_dict(aff))

\* bool((d.get("irq") or {}).get("smp_affinity_list") or {}), False on an exception
compute_irq_affinity_present(x) ==
    affinity_present(get_or_raise(dict_get(x, Lit.irq), Lit.smp_affinity_list))

-----------------------------------------------------------------------------
(* diff_dumps *)

\* sorted(S) for a set of strings
RECURSIVE sorted(_)
sorted(S) ==
    IF S = {} THEN <<>>
    ELSE LET x == CHOOSE y \in S : TRUE
             rest == sorted(S \ {x})
             below == Cardinality({i \in 1..Len(rest) : StrLess(rest[i], x)})
         IN SubSeq(rest, 1, below) \o <<x>> \o SubSeq(rest, below + 1, Len(rest))

\* Mutant of map_get: a missing address reads as the string "(absent)".
map_get_absent_marker(m, k) == IF k \in DOMAIN m THEN m[k] ELSE Str(Lit.absent_paren)

\* m.get(k, None) on a flattened map
map_get(m, k) == IF k \in DOMAIN m THEN m[k] ELSE None

\* set(r.keys()), raised when r is no dict
keys_of(r) ==
    IF isinstance_dict(r) THEN [raised |-> FALSE, names |-> dict_keys(r)]
    ELSE [raised |-> TRUE, names |-> {}]

\* set((i or {}).keys()), raised when computing i raised
keys_or_raise(i) ==
    IF i = Raises THEN [raised |-> TRUE, names |-> {}] ELSE keys_of(or_empty_dict(i))

\* set(((x.get("network") or {}).get("interfaces") or {}).keys()); raised when
\* .get or .keys is called on a value that is no dict
ifaces_of(x) == keys_or_raise(get_or_raise(dict_get(x, Lit.network), Lit.interfaces))

\* The DiffResult is a dict in insertion order: a sequence of <<category, list>>.
bucket_names(r) == {r[i][1] : i \in 1..Len(r)}
bucket(r, cat) == r[CHOOSE i \in 1..Len(r) : r[i][1] = cat][2]

\* Mutant of append_entry: every entry opens a bucket of its own.
append_entry_new_bucket(r, cat, entry) == Append(r, <<cat, <<entry>>>>)

\* diffs[cat].append(entry) on a defaultdict(list)
append_entry(r, cat, entry) ==
    IF cat \in bucket_names(r)
    THEN [i \in 1..Len(r) |-> IF r[i][1] = cat THEN <<cat, Append(r[i][2], entry)>> ELSE r[i]]
    ELSE Append(r, <<cat, <<entry>>>>)

\* lines 192-199 and 200-207: one synthetic entry per name of the sorted list
RECURSIVE iface_loop(_, _, _, _, _, _)
iface_loop(names, i, o, n, note, r) ==
    IF i > Len(names) THEN r
    ELSE iface_loop(names, i + 1, o, n, note,
             append_entry(r, Lit.network,
                 [path |-> Lit.network_interfaces_dot \o names[i],
                  old |-> Str(o),
                  new |-> Str(n),
                  severity |-> "INFO",
                  note |-> Str(note)]))

\* lines 214-222: the entry of address k, sn being severity_of's result
append_leaf(r, k, x, y, sn) ==
    append_entry(r, category_of(k),
        [path |-> k, old |-> x, new |-> y, severity |-> sn[1], note |-> sn[2]])

\* Mutant of leaf_step: an address whose new value is missing gets no leaf
\* entry (a removed interface reported by its synthetic entry alone).
leaf_step_not_vanished(r, k, x, y, ctx) ==
    IF ~value_changed(x, y) \/ y = None THEN r
    ELSE append_leaf(r, k, x, y, severity_of(k, x, y, ctx))

\* lines 210-222: the loop body for address k with old value x and new value y
leaf_step(r, k, x, y, ctx) ==
    IF ~value_changed(x, y) THEN r
    ELSE append_leaf(r, k, x, y, severity_of(k, x, y, ctx))

\* lines 209-222: one leaf entry per address whose values differ
RECURSIVE leaf_loop(_, _, _, _, _, _)
leaf_loop(ks, i, fo, fn, ctx, r) ==
    IF i > Len(ks) THEN r
    ELSE leaf_loop(ks, i + 1, fo, fn, ctx,
             leaf_step(r, ks[i], map_get(fo, ks[i]), map_get(fn, ks[i]), ctx))

\* {k: v for k, v in diffs.items() if v}
drop_empty(r) == SelectSeq(r, LAMBDA kv : kv[2] # <<>>)

\* Mutant of filtered: categories with a single entry are removed as well.
filtered_single_too(r, oc) == IF oc THEN SelectSeq(r, LAMBDA kv : Len(kv[2]) > 1) ELSE r

\* lines 224-226
filtered(r, oc) == IF oc THEN drop_empty(r) ELSE r

\* lines 187-226, the interface names read without an exception
diff_entries(o_names, n_names, fo, fn, ctx, oc) ==
    filtered(
        leaf_loop(sorted(DOMAIN fo \cup DOMAIN fn), 1, fo, fn, ctx,
            iface_loop(sorted(n_names \ o_names), 1, Lit.absent, Lit.present, Lit.interface_added,
                iface_loop(sorted(o_names \ n_names), 1, Lit.present, Lit.absent,
                           Lit.interface_removed, <<>>))),
        oc)

\* lines 183-226 with the locals f_old, f_new, context, old_ifaces, new_ifaces
diff_with(fo, fn, ctx, old_ifaces, new_ifaces, oc) ==
    IF old_ifaces.raised \/ new_ifaces.raised
    THEN [raised |-> TRUE, f_old |-> fo, f_new |-> fn, diffs |-> <<>>]
    ELSE [raised |-> FALSE, f_old |-> fo, f_new |-> fn,
          diffs |-> diff_entries(old_ifaces.names, new_ifaces.names, fo, fn, ctx, oc)]

\* line 186
context_of(o, n) ==
    Dict(<< <<Lit.irq_affinity_present,
              Bool(compute_irq_affinity_present(o) \/ compute_irq_affinity_present(n))>> >>)

diff_dumps(o, n, oc) ==
    diff_with(flatten(o, <<>>), flatten(n, <<>>), context_of(o, n),
              ifaces_of(o), ifaces_of(n), oc)

-----------------------------------------------------------------------------
(* print_console, write_md *)

\* fmt_value of a scalar: str(v), cut to 117 characters and "..." beyond 120
fmt_value(v) ==
    IF Len(str(v)) > 120 THEN SubSeq(str(v), 1, 117) \o <<".", ".", ".">> ELSE str(v)

\* Mutant of sort_by_severity_path: the key is the path alone.
sort_by_path(items) ==
    LET n == Len(items)
        less(a, b) == StrLess(a.path, b.path)
        rank(i) == 1 + Cardinality({j \in 1..n :
                        \/ less(items[j], items[i])
                        \/ ~less(items[i], items[j]) /\ j < i})
    IN  [r \in 1..n |-> items[CHOOSE i \in 1..n : rank(i) = r]]

\* list.sort / sorted with key (SEV_ORDER.get(severity, 99), path): a stable
\* sort, entries of equal key keep their order
sort_by_severity_path(items) ==
    LET n == Len(items)
        less(a, b) ==
            \/ SEV_ORDER[a.severity] < SEV_ORDER[b.severity]
            \/ SEV_ORDER[a.severity] = SEV_ORDER[b.severity] /\ StrLess(a.path, b.path)
        rank(i) == 1 + Cardinality({j \in 1..n :
                        \/ less(items[j], items[i])
                        \/ ~less(items[i], items[j]) /\ j < i})
    IN  [r \in 1..n |-> items[CHOOSE i \in 1..n : rank(i) = r]]

\* line 242: "[SEVERITY] path: old -> new (note)", the severity padded to 8
console_line(it) ==
    LET sev == Lit[it.severity] \o [i \in 1..(8 - Len(Lit[it.severity])) |-> " "]
        note == IF it.note # None /\ it.note.v # <<>>
                THEN <<" ", "(">> \o it.note.v \o <<")">> ELSE <<>>
        o == IF it.old # None THEN fmt_value(it.old) ELSE Lit.absent_paren
        n == IF it.new # None THEN fmt_value(it.new) ELSE Lit.absent_paren
    IN  <<"[">> \o sev \o <<"]", " ">> \o it.path \o <<":", " ">> \o o
            \o <<" ", "-", ">", " ">> \o n \o note

\* line 263: "- [SEVERITY] 'path': old -> new (note)", the path between two
\* grave accents, each written "backtick" here
md_line(it) ==
    LET note == IF it.note # None /\ it.note.v # <<>>
                THEN <<" ", "(">> \o it.note.v \o <<")">> ELSE <<>>
        o == IF it.old # None THEN fmt_value(it.old) ELSE Lit.absent_paren
        n == IF it.new # None THEN fmt_value(it.new) ELSE Lit.absent_paren
    IN  <<"-", " ", "[">> \o Lit[it.severity] \o <<"]", " ", "backtick">> \o it.path
            \o <<"backtick", ":", " ">> \o o \o <<" ", "-", ">", " ">> \o n \o note

\* lines 232-235: the entries of all categories, in the order of the dict
RECURSIVE items_of(_, _)
items_of(diffs_, i) ==
    IF i > Len(diffs_) THEN <<>> ELSE diffs_[i][2] \o items_of(diffs_, i + 1)

\* Mutant of print_console: the count is of the entries that are not INFO.
print_console_counting_warnings(diffs_) ==
    LET items == sort_by_severity_path(items_of(diffs_, 1))
    IN  [lines |-> IF items = <<>> THEN <<Lit.no_differences_detected>>
                   ELSE [i \in 1..Len(items) |-> console_line(items[i])],
         ncrit |-> Cardinality({i \in 1..Len(items) : items[i].severity # "INFO"})]

\* lines 229-247: the lines printed and the count returned
print_console(diffs_) ==
    LET items == sort_by_severity_path(items_of(diffs_, 1))
    IN  [lines |-> IF items = <<>> THEN <<Lit.no_differences_detected>>
                   ELSE [i \in 1..Len(items) |-> console_line(items[i])],
         ncrit |-> Cardinality({i \in 1..Len(items) : items[i].severity = "CRITICAL"})]

\* lines 250-264: the lines that are joined into the report
write_md(diffs_) ==
    LET cats == sorted(bucket_names(diffs_))
        section(cat, items) ==
            << <<>>, <<"#", "#", " ">> \o cat >> \o [j \in 1..Len(items) |-> md_line(items[j])]
        RECURSIVE sections(_)
        sections(i) ==
            IF i > Len(cats) THEN <<>>
            ELSE section(cats[i], sort_by_severity_path(bucket(diffs_, cats[i])))
                     \o sections(i + 1)
    IN  <<Lit.latency_sysdiff_report>> \o sections(1)

-----------------------------------------------------------------------------
(* Snapshot documents given to the comparator *)

\* Keys and values the collector writes (latency_sysdump.py).
\* Keys of the collector's documents.
Key == [
    interrupts |-> <<"i","n","t","e","r","r","u","p","t","s">>,  \* "interrupts"
    irqbalance |-> <<"i","r","q","b","a","l","a","n","c","e">>,  \* "irqbalance"
    state |-> <<"s","t","a","t","e">>,  \* "state"
    irq24 |-> <<"2","4">>,  \* "24"
    eth0 |-> <<"e","t","h","0">>,  \* "eth0"
    eth1 |-> <<"e","t","h","1">>,  \* "eth1"
    mac |-> <<"m","a","c">>,  \* "mac"
    mtu |-> <<"m","t","u">>,  \* "mtu"
    ethtool |-> <<"e","t","h","t","o","o","l">>,  \* "ethtool"
    features |-> <<"f","e","a","t","u","r","e","s">>,  \* "features"
    rings |-> <<"r","i","n","g","s">>,  \* "rings"
    rx |-> <<"r","x">>,  \* "rx"
    memory |-> <<"m","e","m","o","r","y">>,  \* "memory"
    swappiness |-> <<"s","w","a","p","p","i","n","e","s","s">>,  \* "swappiness"
    transparent_hugepage |-> <<"t","r","a","n","s","p","a","r","e","n","t","_","h","u","g","e","p","a","g","e">>,  \* "transparent_hugepage"
    enabled |-> <<"e","n","a","b","l","e","d">>,  \* "enabled"
    ksm |-> <<"k","s","m">>,  \* "ksm"
    run |-> <<"r","u","n">>,  \* "run"
    services_sysctl |-> <<"s","e","r","v","i","c","e","s","_","s","y","s","c","t","l">>,  \* "services_sysctl"
    sysctl |-> <<"s","y","s","c","t","l">>,  \* "sysctl"
    net_core |-> <<"n","e","t",".","c","o","r","e">>,  \* "net.core"
    net |-> <<"n","e","t">>,  \* "net"
    core |-> <<"c","o","r","e">>,  \* "core"
    \* keys of the collector's snapshot (latency_sysdump.py)
    kernel |-> <<"k","e","r","n","e","l">>,  \* "kernel"
    cmdline |-> <<"c","m","d","l","i","n","e">>,  \* "cmdline"
    cmdline_params |-> <<"c","m","d","l","i","n","e","_","p","a","r","a","m","s">>,  \* "cmdline_params"
    dmesg_snippets |-> <<"d","m","e","s","g","_","s","n","i","p","p","e","t","s">>,  \* "dmesg_snippets"
    cpu_topology |-> <<"c","p","u","_","t","o","p","o","l","o","g","y">>,  \* "cpu_topology"
    lscpu_raw |-> <<"l","s","c","p","u","_","r","a","w">>,  \* "lscpu_raw"
    lscpu_e |-> <<"l","s","c","p","u","_","e">>,  \* "lscpu_e"
    kernel_cpufreq_default_governor |-> <<"k","e","r","n","e","l","_","c","p","u","f","r","e","q","_","d","e","f","a","u","l","t","_","g","o","v","e","r","n","o","r">>,  \* "kernel_cpufreq_default_governor"
    kernel_cpufreq_default_source |-> <<"k","e","r","n","e","l","_","c","p","u","f","r","e","q","_","d","e","f","a","u","l","t","_","s","o","u","r","c","e">>,  \* "kernel_cpufreq_default_source"
    affinity_isolation |-> <<"a","f","f","i","n","i","t","y","_","i","s","o","l","a","t","i","o","n">>,  \* "affinity_isolation"
    process_cpus_allowed_list |-> <<"p","r","o","c","e","s","s","_","c","p","u","s","_","a","l","l","o","w","e","d","_","l","i","s","t">>,  \* "process_cpus_allowed_list"
    isolcpus |-> <<"i","s","o","l","c","p","u","s">>,  \* "isolcpus"
    nohz_full |-> <<"n","o","h","z","_","f","u","l","l">>,  \* "nohz_full"
    rcu_nocbs |-> <<"r","c","u","_","n","o","c","b","s">>,  \* "rcu_nocbs"
    timekeeping |-> <<"t","i","m","e","k","e","e","p","i","n","g">>,  \* "timekeeping"
    clocksource_current |-> <<"c","l","o","c","k","s","o","u","r","c","e","_","c","u","r","r","e","n","t">>,  \* "clocksource_current"
    timedatectl |-> <<"t","i","m","e","d","a","t","e","c","t","l">>,  \* "timedatectl"
    pages_to_scan |-> <<"p","a","g","e","s","_","t","o","_","s","c","a","n">>,  \* "pages_to_scan"
    sleep_millisecs |-> <<"s","l","e","e","p","_","m","i","l","l","i","s","e","c","s">>,  \* "sleep_millisecs"
    speed |-> <<"s","p","e","e","d">>,  \* "speed"
    toolchain |-> <<"t","o","o","l","c","h","a","i","n">>,  \* "toolchain"
    gcc_version |-> <<"g","c","c","_","v","e","r","s","i","o","n">>,  \* "gcc_version"
    kernel_timer_migration |-> <<"k","e","r","n","e","l",".","t","i","m","e","r","_","m","i","g","r","a","t","i","o","n">>,  \* "kernel.timer_migration"
    aslr |-> <<"a","s","l","r">>,  \* "aslr"
    kernel_randomize_va_space |-> <<"k","e","r","n","e","l",".","r","a","n","d","o","m","i","z","e","_","v","a","_","s","p","a","c","e">>,  \* "kernel.randomize_va_space"
    containers |-> <<"c","o","n","t","a","i","n","e","r","s">>,  \* "containers"
    docker_info |-> <<"d","o","c","k","e","r","_","i","n","f","o">>,  \* "docker_info"
    docker_systemd_state |-> <<"d","o","c","k","e","r","_","s","y","s","t","e","m","d","_","s","t","a","t","e">>,  \* "docker_systemd_state"
    meta |-> <<"m","e","t","a">>,  \* "meta"
    script_version |-> <<"s","c","r","i","p","t","_","v","e","r","s","i","o","n">>,  \* "script_version"
    per_cpu_governors |-> <<"p","e","r","_","c","p","u","_","g","o","v","e","r","n","o","r","s">>,  \* "per_cpu_governors"
    total |-> <<"t","o","t","a","l">>,  \* "total"
    desc |-> <<"d","e","s","c">> ]  \* "desc"
\* Values of the documents and of the classifier's inputs.
Val == [
    s0_3 |-> <<"0","-","3">>,  \* "0-3"
    active |-> <<"a","c","t","i","v","e">>,  \* "active"
    inactive |-> <<"i","n","a","c","t","i","v","e">>,  \* "inactive"
    s1500 |-> <<"1","5","0","0">>,  \* "1500"
    s9000 |-> <<"9","0","0","0">>,  \* "9000"
    s0x100 |-> <<"0","x","1","0","0">>,  \* "0x100"
    s60 |-> <<"6","0">>,  \* "60"
    always |-> <<"a","l","w","a","y","s">>,  \* "always"
    never |-> <<"n","e","v","e","r">>,  \* "never"
    empty |-> <<>>,  \* ""
    performance |-> <<"p","e","r","f","o","r","m","a","n","c","e">>,  \* "performance"
    Performance |-> <<"P","e","r","f","o","r","m","a","n","c","e">>,  \* "Performance"
    PERFORMANCE |-> <<"P","E","R","F","O","R","M","A","N","C","E">>,  \* "PERFORMANCE"
    powersave |-> <<"p","o","w","e","r","s","a","v","e">>,  \* "powersave"
    s512 |-> <<"5","1","2">>,  \* "512"
    s256 |-> <<"2","5","6">>,  \* "256"
    s10 |-> <<"1","0">>,  \* "10"
    s30 |-> <<"3","0">>,  \* "30"
    s50 |-> <<"5","0">>,  \* "50"
    s41 |-> <<"4","1">>,  \* "41"
    s42 |-> <<"4","2">>,  \* "42"
    s8 |-> <<"8">>,  \* "8"
    s010 |-> <<"0","1","0">>,  \* "010"
    s0o20 |-> <<"0","o","2","0">>,  \* "0o20"
    \* texts of the collector's files and commands
    ro_isolcpus |-> <<"r","o"," ","i","s","o","l","c","p","u","s","=","2">>,  \* "ro isolcpus=2"
    unclosed |-> <<"r","o"," ","a","=","'","b">>,  \* "ro a='b"
    s2 |-> <<"2">>,  \* "2"
    tsc |-> <<"t","s","c",":"," ","o","k">>,  \* "tsc: ok"
    cpu0 |-> <<"c","p","u","0">>,  \* "cpu0"
    rx_512 |-> <<"R","X",":"," ","5","1","2">>,  \* "RX: 512"
    s0 |-> <<"0">>,  \* "0"
    s1 |-> <<"1">>,  \* "1"
    gcc |-> <<"g","c","c"," ","1","3">>,  \* "gcc 13"
    boot_config |-> <<"/","b","o","o","t","/","c","o","n","f","i","g">>,  \* "/boot/config"
    proc_config_gz |-> <<"/","p","r","o","c","/","c","o","n","f","i","g",".","g","z">>,  \* "/proc/config.gz"
    v1_0_0 |-> <<"1",".","0",".","0">>,  \* "1.0.0"
    irq_line |-> <<"2","4",":"," ","5"," ","e","t","h","0">>,  \* "24: 5 eth0"
    config_gov |-> <<"C","O","N","F","I","G","_","C","P","U","_","F","R","E","Q","_","D","E","F","A","U","L","T","_","G","O","V","_","P","E","R","F","O","R","M","A","N","C","E","=","y">>,  \* "CONFIG_CPU_FREQ_DEFAULT_GOV_PERFORMANCE=y"
    config_hz |-> <<"C","O","N","F","I","G","_","H","Z","=","2","5","0">>,  \* "CONFIG_HZ=250"
    cpus_allowed |-> <<"C","p","u","s","_","a","l","l","o","w","e","d","_","l","i","s","t",":"," ","0","-","3">>,  \* "Cpus_allowed_list: 0-3"
    mac0 |-> <<"0","2",":","0","0">>,  \* "02:00"
    utc |-> <<"U","T","C">> ]  \* "UTC"

KV(k, x) == <<k, x>>

\* Per-interface records as collect_network builds them (a subset of the fields).
IfaceA ==
    Dict(<< KV(Key.mtu, Str(Val.s1500)),
            KV(Key.ethtool, Dict(<< KV(Key.features, Dict(<< KV(Lit.tcp_segmentation_offload, True) >>)),
                                  KV(Key.rings, Dict(<< KV(Key.rx, IntVal(512)) >>)) >>)) >>)
IfaceB ==
    Dict(<< KV(Key.mac, None),
            KV(Key.mtu, Str(Val.s9000)),
            KV(Key.ethtool, Dict(<< KV(Key.features, Dict(<< KV(Lit.tcp_segmentation_offload, False) >>)),
                                  KV(Key.rings, Dict(<< KV(Key.rx, Str(Val.s0x100)) >>)) >>)) >>)

IfaceInfos == {IfaceA, IfaceB}

\* The interfaces mappings over eth0 and eth1, keys inserted in sorted order as
\* collect_network inserts them, and one interface with an empty record.
InterfaceMaps ==
    {EmptyDict, Dict(<< KV(Key.eth1, EmptyDict) >>)}
    \cup {Dict(<< KV(k, x) >>) : k \in {Key.eth0, Key.eth1}, x \in IfaceInfos}
    \cup {Dict(<< KV(Key.eth0, x), KV(Key.eth1, y) >>) : x \in IfaceInfos, y \in IfaceInfos}

\* Values of the top-level key "network": well-formed ones, a null interfaces
\* field, and an interfaces field that is a list of names.
NetworkValues ==
    {Dict(<< KV(Lit.interfaces, m) >>) : m \in InterfaceMaps}
    \cup {Dict(<< KV(Lit.interfaces, None) >>),
          Dict(<< KV(Lit.interfaces, List(<< Str(Key.eth0) >>)) >>)}

\* Values of the top-level key "memory"; ksm.run is the number 1 in one and the
\* boolean true in the other, swappiness the string "60" and the number 60.
MemoryValues ==
    {Dict(<< KV(Key.swappiness, Str(Val.s60)),
             KV(Key.transparent_hugepage, Dict(<< KV(Key.enabled, Str(Val.always)) >>)),
             KV(Key.ksm, Dict(<< KV(Key.run, IntVal(1)) >>)) >>),
     Dict(<< KV(Key.swappiness, IntVal(60)),
             KV(Key.transparent_hugepage, Dict(<< KV(Key.enabled, Str(Val.never)) >>)),
             KV(Key.ksm, Dict(<< KV(Key.run, True) >>)) >>)}

\* sysctl names are dotted keys of one mapping (collect_services_sysctls); the
\* nested spelling of the same name, and both at once, are also well-formed JSON.
ServicesSysctlValues ==
    {Dict(<< KV(Key.sysctl, Dict(<< KV(Key.net_core, Str(<<"1">>)) >>)) >>),
     Dict(<< KV(Key.sysctl, Dict(<< KV(Key.net, Dict(<< KV(Key.core, Str(<<"1">>)) >>)) >>)) >>),
     Dict(<< KV(Key.sysctl, Dict(<< KV(Key.net, Dict(<< KV(Key.core, Str(<<"2">>)) >>)),
                                  KV(Key.net_core, Str(<<"1">>)) >>)) >>)}

\* The categories a document may hold, in the order main inserts them.
Categories == <<Key.memory, Lit.network, Key.services_sysctl>>

\* Documents: a top-level mapping holding at most MaxTop of the categories.
MaxTop == 1

RECURSIVE DocsFrom(_, _)
DocsFrom(i, room) ==
    IF i > Len(Categories) THEN {<<>>}
    ELSE LET rest == DocsFrom(i + 1, room)
             CategoryValues(c) ==
                 CASE c = Key.memory -> MemoryValues
                   [] c = Lit.network -> NetworkValues
                   [] c = Key.services_sysctl -> ServicesSysctlValues
         IN
         rest \cup (IF room = 0 THEN {}
                    ELSE {<<KV(Categories[i], x)>> \o r :
                              x \in CategoryValues(Categories[i]),
                              r \in DocsFrom(i + 1, room - 1)})

Docs == {Dict(items) : items \in DocsFrom(1, MaxTop)}

-----------------------------------------------------------------------------
(* The comparator run: diff_dumps on two documents *)

Idle == <<>>

\* The process has not exited.
Running == <<>>

\* The variables of the runs outside gs hold their values of construction.
IdleExcept(gs) ==
    /\ IF "diff" \in gs THEN TRUE
       ELSE /\ old = EmptyDict /\ new = EmptyDict /\ only_changed = FALSE
            /\ f_old = EmptyMap /\ f_new = EmptyMap /\ diffs = <<>>
    /\ IF "flatten" \in gs THEN TRUE ELSE fl_d = None /\ fl_ret = EmptyMap
    /\ IF "severity" \in gs THEN TRUE
       ELSE /\ sv_path = <<>> /\ sv_old = None /\ sv_new = None
            /\ sv_context = EmptyDict /\ sv_ret = Idle
    /\ IF "parse" \in gs THEN TRUE ELSE pi_v = None /\ pi_ret = None
    /\ IF "main" \in gs THEN TRUE
       ELSE /\ exit_on_critical = FALSE /\ md_given = FALSE /\ ncrit = 0
            /\ console = <<>> /\ md_report = <<>> /\ exit_status = Running
    /\ IF "numeric_map" \in gs THEN TRUE ELSE nm_text = <<>> /\ nm_ret = None
    /\ IF "sh" \in gs THEN TRUE ELSE sh_run = Idle /\ sh_ret = Idle
    /\ IF "collect" \in gs THEN TRUE
       ELSE /\ env = Idle /\ step = 0 /\ data = EmptyDict
            /\ raw_blobs = EmptyMap /\ calls = <<>>

\* A run of gs leaves the variables of the other runs alone.
Frame(gs) ==
    /\ IF "diff" \in gs THEN TRUE
       ELSE UNCHANGED <<old, new, only_changed, f_old, f_new, diffs>>
    /\ IF "flatten" \in gs THEN TRUE ELSE UNCHANGED <<fl_d, fl_ret>>
    /\ IF "severity" \in gs THEN TRUE
       ELSE UNCHANGED <<sv_path, sv_old, sv_new, sv_context, sv_ret>>
    /\ IF "parse" \in gs THEN TRUE ELSE UNCHANGED <<pi_v, pi_ret>>
    /\ IF "main" \in gs THEN TRUE
       ELSE UNCHANGED <<exit_on_critical, md_given, ncrit, console, md_report,
                        exit_status>>
    /\ IF "numeric_map" \in gs THEN TRUE ELSE UNCHANGED <<nm_text, nm_ret>>
    /\ IF "sh" \in gs THEN TRUE ELSE UNCHANGED <<sh_run, sh_ret>>
    /\ IF "collect" \in gs THEN TRUE
       ELSE UNCHANGED <<env, step, data, raw_blobs, calls>>

\* old and new are two documents of D
InitDiffOn(D) ==
    /\ pc = "start"
    /\ old \in D
    /\ new \in D
    /\ only_changed \in BOOLEAN
    /\ f_old = EmptyMap
    /\ f_new = EmptyMap
    /\ diffs = <<>>
    /\ IdleExcept({"diff"})

\* Mutant of DiffDumps: the call gives old a network key when it has none, as
\* old.setdefault("network", {}) would.
DiffDumps_setdefault ==
    /\ pc = "start"
    /\ LET r == diff_dumps(old, new, only_changed) IN
        /\ pc' = IF r.raised THEN "raised" ELSE "returned"
        /\ f_old' = r.f_old
        /\ f_new' = r.f_new
        /\ diffs' = r.diffs
    /\ old' = IF isinstance_dict(old) /\ Lit.network \notin dict_keys(old)
              THEN Dict(Append(old.v, KV(Lit.network, EmptyDict)))
              ELSE old
    /\ UNCHANGED <<new, only_changed>>
    /\ Frame({"diff"})

\* diffs = diff_dumps(old, new, args.only_changed)
DiffDumps ==
    /\ pc = "start"
    /\ LET r == diff_dumps(old, new, only_changed) IN
        /\ pc' = IF r.raised THEN "raised" ELSE "returned"
        /\ f_old' = r.f_old
        /\ f_new' = r.f_new
        /\ diffs' = r.diffs
    /\ UNCHANGED <<old, new, only_changed>>
    /\ Frame({"diff"})

SpecDiff == InitDiffOn(Docs) /\ [][DiffDumps]_vars

\* Values of the top-level key "irq": the mapping collect_irqs returns, with no,
\* an empty and a filled smp_affinity_list; a null; and values of other shapes.
IrqValues == {
    Dict(<< KV(Key.interrupts, EmptyDict), KV(Lit.smp_affinity_list, EmptyDict) >>),
    Dict(<< KV(Key.interrupts, EmptyDict),
            KV(Lit.smp_affinity_list, Dict(<< KV(Key.irq24, Str(Val.s0_3)) >>)) >>),
    Dict(<< KV(Key.interrupts, EmptyDict) >>),
    Dict(<< KV(Lit.smp_affinity_list, None) >>),
    Dict(<< KV(Lit.smp_affinity_list, Str(Val.s0_3)) >>),
    Dict(<< KV(Lit.smp_affinity_list, List(<< Str(Val.s0_3) >>)) >>),
    EmptyDict, None, Str(Val.s0_3), List(<< Str(Val.s0_3) >>) }

\* Documents with the irqbalance state of collect_services_sysctls and, in all
\* but two of them, an irq category.
IrqDocs ==
    LET Service(st) ==
            KV(Key.services_sysctl, Dict(<< KV(Key.irqbalance, Dict(<< KV(Key.state, Str(st)) >>)) >>))
    IN  {Dict(<< KV(Lit.irq, x), Service(st) >>) : x \in IrqValues, st \in {Val.active, Val.inactive}}
        \cup {Dict(<< Service(st) >>) : st \in {Val.active, Val.inactive}}


SpecIrq == InitDiffOn(IrqDocs) /\ [][DiffDumps]_vars

-----------------------------------------------------------------------------
(* The flattener run: flatten on one value tree *)

\* Mapping keys of the flattener's value trees.
FlattenKey == [
    a |-> <<"a">>,  \* "a"
    b |-> <<"b">>,  \* "b"
    c |-> <<"c">>,  \* "c"
    d |-> <<"d">>,  \* "d"
    a_dot_b |-> <<"a", ".", "b">>,  \* "a.b"
    a_0 |-> <<"a", "[", "0", "]">>,  \* "a[0]"
    empty |-> <<>> ]  \* ""

\* Mapping keys of the value trees: plain names, a dotted name as the
\* collector's sysctl names, a bracketed name and the empty name.
FlattenKeys == {FlattenKey.a, FlattenKey.b, FlattenKey.a_dot_b, FlattenKey.a_0, FlattenKey.empty}

FlattenScalars == {IntVal(1), None}

\* Value trees hold at most MaxNodes nodes (scalars and containers).
MaxNodes == 3

\* The ways to key the values of f with distinct keys, in insertion order.
WithKeys(f) ==
    {[i \in 1..Len(f) |-> <<ks[i], f[i]>>] :
        ks \in {q \in [1..Len(f) -> FlattenKeys] :
                   \A i, j \in 1..Len(f) : q[i] = q[j] => i = j}}

RECURSIVE TreesOfSize(_)
RECURSIVE ForestsOfSize(_)

\* The value trees of exactly k nodes.
TreesOfSize(k) ==
    (IF k = 1 THEN FlattenScalars ELSE {})
    \cup {List(f) : f \in ForestsOfSize(k - 1)}
    \cup UNION {{Dict(items) : items \in WithKeys(f)} : f \in ForestsOfSize(k - 1)}

\* The sequences of value trees of exactly m nodes in total.
ForestsOfSize(m) ==
    IF m = 0 THEN {<<>>}
    ELSE UNION {{<<x>> \o r : x \in TreesOfSize(k), r \in ForestsOfSize(m - k)} :
                   k \in 1..m}

\* {"a": {"b": 1}, "c": [2, {"d": 3}]}
TestDocument ==
    Dict(<<KV(FlattenKey.a, Dict(<<KV(FlattenKey.b, IntVal(1))>>)),
           KV(FlattenKey.c, List(<<IntVal(2), Dict(<<KV(FlattenKey.d, IntVal(3))>>)>>))>>)

FlattenValues ==
    LET \* {"a": {"b": 1}, "a.b": null}: a dotted key beside the nesting it spells
        DottedKeyDocument ==
            Dict(<<KV(FlattenKey.a, Dict(<<KV(FlattenKey.b, IntVal(1))>>)), KV(FlattenKey.a_dot_b, None)>>)
        \* {"a[0]": null, "a": [1]}: a bracketed key beside the sequence it spells
        BracketKeyDocument ==
            Dict(<<KV(FlattenKey.a_0, None), KV(FlattenKey.a, List(<<IntVal(1)>>))>>)
        \* {"a": [1, null], "b": {"a": 1}}
        PlainDocument ==
            Dict(<<KV(FlattenKey.a, List(<<IntVal(1), None>>)),
                   KV(FlattenKey.b, Dict(<<KV(FlattenKey.a, IntVal(1))>>))>>)
        \* {"a": [1, null], "b": {}, "c": []}
        SparseDocument ==
            Dict(<<KV(FlattenKey.a, List(<<IntVal(1), None>>)), KV(FlattenKey.b, Dict(<<>>)),
                   KV(FlattenKey.c, List(<<>>))>>)
    IN  UNION {TreesOfSize(k) : k \in 1..MaxNodes}
        \cup {TestDocument, DottedKeyDocument, BracketKeyDocument, PlainDocument,
              SparseDocument}

InitFlatten ==
    /\ pc = "flatten"
    /\ fl_d \in FlattenValues
    /\ fl_ret = EmptyMap
    /\ IdleExcept({"flatten"})

\* fl_ret = flatten(fl_d)
Flatten ==
    /\ pc = "flatten"
    /\ fl_ret' = flatten(fl_d, <<>>)
    /\ pc' = "flattened"
    /\ UNCHANGED fl_d
    /\ Frame({"flatten"})

SpecFlatten == InitFlatten /\ [][Flatten]_vars

\* Documents whose top-level values are scalars, mappings and sequences.
TopLevelDocs ==
    LET one == IntVal(1)
        two == IntVal(2)
    IN  { EmptyDict,
          Dict(<< KV(FlattenKey.c, one) >>),
          Dict(<< KV(FlattenKey.c, List(<< one >>)) >>),
          Dict(<< KV(FlattenKey.c, List(<< two, one >>)) >>),
          Dict(<< KV(FlattenKey.c, List(<< Dict(<< KV(FlattenKey.d, one) >>) >>)) >>),
          Dict(<< KV(FlattenKey.c, Dict(<< KV(FlattenKey.d, one) >>)) >>),
          Dict(<< KV(FlattenKey.c, Dict(<< KV(FlattenKey.d, List(<< two >>)) >>)) >>),
          Dict(<< KV(FlattenKey.b, two), KV(FlattenKey.c, List(<< one >>)) >>),
          Dict(<< KV(Lit.network, Dict(<< KV(Lit.interfaces,
                      Dict(<< KV(Key.eth0, Dict(<< KV(Key.mtu, Str(Val.s1500)) >>)) >>)) >>)) >>),
          Dict(<< KV(Lit.network, Dict(<< KV(Lit.interfaces,
                      Dict(<< KV(Key.eth0, Dict(<< KV(Key.mtu, Str(Val.s9000)) >>)) >>)) >>)) >>),
          Dict(<< KV(Lit.network, Dict(<< KV(Lit.interfaces,
                      Dict(<< KV(Key.eth0, Dict(<< KV(Key.mtu, Str(Val.s1500)) >>)),
                              KV(Key.eth1, Dict(<< KV(Key.mac, None),
                                                   KV(Key.mtu, Str(Val.s1500)) >>)) >>)) >>)),
                  KV(Key.memory, Dict(<< KV(Key.swappiness, IntVal(60)) >>)) >>) }
        \cup {Dict(<< KV(Key.memory, Dict(<< KV(Key.swappiness, Str(Val.s60)) >>)),
                      KV(Key.services_sysctl, x) >>) : x \in ServicesSysctlValues}


SpecTopLevel == InitDiffOn(TopLevelDocs) /\ [][DiffDumps]_vars

-----------------------------------------------------------------------------
(* The classifier run: severity_of on one path, value pair and context *)

\* Paths below and beside the prefixes of the rules.
Path == [
    governor_cpu0 |-> <<"c","p","u","_","t","o","p","o","l","o","g","y",".","p","e","r","_","c","p","u","_","g","o","v","e","r","n","o","r","s",".","c","p","u","0">>,  \* "cpu_topology.per_cpu_governors.cpu0"
    governors_no_dot |-> <<"c","p","u","_","t","o","p","o","l","o","g","y",".","p","e","r","_","c","p","u","_","g","o","v","e","r","n","o","r","s">>,  \* "cpu_topology.per_cpu_governors"
    irq_affinity_24 |-> <<"i","r","q",".","s","m","p","_","a","f","f","i","n","i","t","y","_","l","i","s","t",".","2","4">>,  \* "irq.smp_affinity_list.24"
    features_tso |-> <<"n","e","t","w","o","r","k",".","i","n","t","e","r","f","a","c","e","s",".","e","t","h","0",".","e","t","h","t","o","o","l",".","f","e","a","t","u","r","e","s",".","t","s","o">>,  \* "network.interfaces.eth0.ethtool.features.tso"
    features_rx_vlan |-> <<"n","e","t","w","o","r","k",".","i","n","t","e","r","f","a","c","e","s",".","e","t","h","0",".","e","t","h","t","o","o","l",".","f","e","a","t","u","r","e","s",".","r","x","-","v","l","a","n","-","o","f","f","l","o","a","d">>,  \* "network.interfaces.eth0.ethtool.features.rx-vlan-offload"
    features_tcp_seg |-> <<"n","e","t","w","o","r","k",".","i","n","t","e","r","f","a","c","e","s",".","e","t","h","0",".","e","t","h","t","o","o","l",".","f","e","a","t","u","r","e","s",".","t","c","p","-","s","e","g","m","e","n","t","a","t","i","o","n","-","o","f","f","l","o","a","d">>,  \* "network.interfaces.eth0.ethtool.features.tcp-segmentation-offload"
    features_tx_gso_robust |-> <<"n","e","t","w","o","r","k",".","i","n","t","e","r","f","a","c","e","s",".","e","t","h","0",".","e","t","h","t","o","o","l",".","f","e","a","t","u","r","e","s",".","t","x","-","g","s","o","-","r","o","b","u","s","t">>,  \* "network.interfaces.eth0.ethtool.features.tx-gso-robust"
    features_on_tso0 |-> <<"n","e","t","w","o","r","k",".","i","n","t","e","r","f","a","c","e","s",".","t","s","o","0",".","e","t","h","t","o","o","l",".","f","e","a","t","u","r","e","s",".","r","x","-","v","l","a","n","-","o","f","f","l","o","a","d">>,  \* "network.interfaces.tso0.ethtool.features.rx-vlan-offload"
    rings_rx |-> <<"n","e","t","w","o","r","k",".","i","n","t","e","r","f","a","c","e","s",".","e","t","h","0",".","e","t","h","t","o","o","l",".","r","i","n","g","s",".","r","x">>,  \* "network.interfaces.eth0.ethtool.rings.rx"
    rings_mtu |-> <<"n","e","t","w","o","r","k",".","i","n","t","e","r","f","a","c","e","s",".","e","t","h","0",".","e","t","h","t","o","o","l",".","r","i","n","g","s",".","m","t","u">>,  \* "network.interfaces.eth0.ethtool.rings.mtu"
    channels_combined |-> <<"n","e","t","w","o","r","k",".","i","n","t","e","r","f","a","c","e","s",".","e","t","h","0",".","e","t","h","t","o","o","l",".","c","h","a","n","n","e","l","s",".","c","o","m","b","i","n","e","d">>,  \* "network.interfaces.eth0.ethtool.channels.combined"
    coalesce_rx_usecs |-> <<"n","e","t","w","o","r","k",".","i","n","t","e","r","f","a","c","e","s",".","e","t","h","0",".","e","t","h","t","o","o","l",".","c","o","a","l","e","s","c","e",".","r","x","-","u","s","e","c","s">>,  \* "network.interfaces.eth0.ethtool.coalesce.rx-usecs"
    iface_mtu |-> <<"n","e","t","w","o","r","k",".","i","n","t","e","r","f","a","c","e","s",".","e","t","h","0",".","m","t","u">>,  \* "network.interfaces.eth0.mtu"
    iface_mac |-> <<"n","e","t","w","o","r","k",".","i","n","t","e","r","f","a","c","e","s",".","e","t","h","0",".","m","a","c">>,  \* "network.interfaces.eth0.mac"
    iface_driver |-> <<"n","e","t","w","o","r","k",".","i","n","t","e","r","f","a","c","e","s",".","e","t","h","0",".","e","t","h","t","o","o","l",".","d","r","i","v","e","r">>,  \* "network.interfaces.eth0.ethtool.driver"
    ksm_run |-> <<"m","e","m","o","r","y",".","k","s","m",".","r","u","n">>,  \* "memory.ksm.run"
    toolchain_gcc |-> <<"t","o","o","l","c","h","a","i","n",".","g","c","c","_","v","e","r","s","i","o","n">>,  \* "toolchain.gcc_version"
    routes_dot |-> <<"n","e","t","w","o","r","k",".","r","o","u","t","e","s",".","d","e","f","a","u","l","t">>,  \* "network.routes.default"
    routes_0 |-> <<"n","e","t","w","o","r","k",".","r","o","u","t","e","s","[","0","]">>,  \* "network.routes[0]"
    sysctl_busy_poll |-> <<"s","e","r","v","i","c","e","s","_","s","y","s","c","t","l",".","s","y","s","c","t","l",".","n","e","t",".","c","o","r","e",".","b","u","s","y","_","p","o","l","l">>,  \* "services_sysctl.sysctl.net.core.busy_poll"
    ptp_devices_0 |-> <<"t","i","m","e","k","e","e","p","i","n","g",".","p","t","p","_","d","e","v","i","c","e","s","[","0","]">>,  \* "timekeeping.ptp_devices[0]"
    containers_docker |-> <<"c","o","n","t","a","i","n","e","r","s",".","d","o","c","k","e","r">>,  \* "containers.docker"
    metadata_host |-> <<"m","e","t","a","d","a","t","a",".","h","o","s","t">> ]  \* "metadata.host"

\* The paths the rules name, and paths below and beside their prefixes.
SeverityPaths == {
    Lit.kernel_uname_release, Lit.kernel_cmdline, Lit.timekeeping_clocksource_current,
    Lit.cpu_topology_smt_active, Lit.cpu_topology_lscpu_hash,
    Lit.memory_transparent_hugepage_enabled, Lit.toolchain_libstdcxx_max_glibcxx,
    Lit.services_sysctl_irqbalance_state, Lit.memory_overcommit_memory,
    Lit.memory_swappiness,
    Path.governor_cpu0, Path.governors_no_dot, Path.irq_affinity_24,
    Path.features_tso, Path.features_rx_vlan, Path.features_tcp_seg,
    Path.features_tx_gso_robust, Path.features_on_tso0, Path.rings_rx,
    Path.rings_mtu, Path.channels_combined, Path.coalesce_rx_usecs,
    Path.iface_mtu, Path.iface_mac, Path.iface_driver,
    Path.ksm_run, Path.toolchain_gcc, Path.routes_dot,
    Path.routes_0, Path.sysctl_busy_poll, Path.ptp_devices_0,
    Path.containers_docker, Path.metadata_host }

SeverityValues == {
    None, Str(Val.empty), Str(Val.performance), Str(Val.Performance), Str(Val.PERFORMANCE),
    Str(Val.powersave), Str(Val.s512), Str(Val.s256), Str(Val.s0x100), Str(Val.s10), Str(Val.s30),
    Str(Val.s50), IntVal(0), IntVal(512), True, False,
    Str(Val.s41), Str(Val.s42), Str(Val.s8), Str(Val.s010), Str(Val.s0o20) }

\* {}, and the context diff_dumps builds with either value of the flag
SeverityContexts ==
    {EmptyDict, Dict(<<KV(Lit.irq_affinity_present, True)>>),
     Dict(<<KV(Lit.irq_affinity_present, False)>>)}

InitSeverity ==
    /\ pc = "severity"
    /\ sv_path \in SeverityPaths
    /\ sv_old \in SeverityValues
    /\ sv_new \in SeverityValues
    /\ sv_context \in SeverityContexts
    /\ sv_ret = Idle
    /\ IdleExcept({"severity"})

\* sv_ret = severity_of(sv_path, sv_old, sv_new, sv_context)
SeverityOf ==
    /\ pc = "severity"
    /\ sv_ret' = severity_of(sv_path, sv_old, sv_new, sv_context)
    /\ pc' = "classified"
    /\ UNCHANGED <<sv_path, sv_old, sv_new, sv_context>>
    /\ Frame({"severity"})

SpecSeverity == InitSeverity /\ [][SeverityOf]_vars

\* Classifier runs and comparator runs side by side.
SpecSeverityOrDiff == (InitSeverity \/ InitDiffOn(Docs)) /\ [][SeverityOf \/ DiffDumps]_vars

-----------------------------------------------------------------------------
(* The parser run: parse_int on one value *)

\* The characters of the parsed strings: digits, the letters of the base
\* prefixes, a hexadecimal letter, the underscore, a sign and the blank.
ParseAlphabet == {"0", "1", "8", "a", "x", "o", "b", "_", "-", " "}

\* Parsed strings hold at most MaxLen characters.
MaxLen == 3

ParseStrings == UNION {[1..n -> ParseAlphabet] : n \in 0..MaxLen}

ParseValues ==
    {Str(t) : t \in ParseStrings}
    \cup {None, True, False, IntVal(0), IntVal(8), IntVal(-1), IntVal(256)}

InitParse ==
    /\ pc = "parse"
    /\ pi_v \in ParseValues
    /\ pi_ret = None
    /\ IdleExcept({"parse"})

\* pi_ret = parse_int(pi_v)
ParseInt ==
    /\ pc = "parse"
    /\ pi_ret' = parse_int(pi_v)
    /\ pc' = "parsed"
    /\ UNCHANGED pi_v
    /\ Frame({"parse"})

\* Parser runs and classifier runs side by side.
SpecParseOrSeverity == (InitParse \/ InitSeverity) /\ [][ParseInt \/ SeverityOf]_vars

-----------------------------------------------------------------------------
(* The whole run of main, and the renderers on a DiffResult of any order *)

\* Documents with a memory and a network category, and two that differ in an
\* MTU alone.
MainDocs ==
    {EmptyDict}
    \cup {Dict(<< KV(Key.memory, m) >>) : m \in MemoryValues}
    \cup {Dict(<< KV(Key.memory, m), KV(Lit.network, Dict(<< KV(Lit.interfaces, im) >>)) >>) :
              m \in MemoryValues,
              im \in {Dict(<< KV(Key.eth0, IfaceA) >>),
                      Dict(<< KV(Key.eth0, IfaceB) >>),
                      Dict(<< KV(Key.eth0, IfaceB), KV(Key.eth1, IfaceA) >>)}}
    \cup {Dict(<< KV(Lit.network, Dict(<< KV(Lit.interfaces,
                   Dict(<< KV(Key.eth0, Dict(<< KV(Key.mtu, Str(v)) >>)) >>)) >>)) >>) :
              v \in {Val.s1500, Val.s9000}}

\* args and the two loaded documents
InitMain ==
    /\ pc = "start"
    /\ old \in MainDocs
    /\ new \in MainDocs
    /\ only_changed \in BOOLEAN
    /\ exit_on_critical \in BOOLEAN
    /\ md_given \in BOOLEAN
    /\ f_old = EmptyMap /\ f_new = EmptyMap /\ diffs = <<>>
    /\ ncrit = 0 /\ console = <<>> /\ md_report = <<>> /\ exit_status = Running
    /\ IdleExcept({"diff", "main"})

\* lines 285-293: print, write the report if asked for, exit
Report ==
    /\ pc = "returned"
    /\ LET r == print_console(diffs) IN
        /\ console' = r.lines
        /\ ncrit' = r.ncrit
        /\ exit_status' = IF exit_on_critical /\ r.ncrit > 0 THEN 2 ELSE 0
    /\ md_report' = IF md_given THEN write_md(diffs) ELSE <<>>
    /\ pc' = "exited"
    /\ UNCHANGED <<exit_on_critical, md_given>>
    /\ Frame({"main"})

SpecMain == InitMain /\ [][DiffDumps \/ Report]_vars

\* DiffResults of two categories, the entries of a category in every order
\* and the categories in both orders, and the empty DiffResult.
RenderInputs ==
    LET Entry(p, o, n, sev, note) ==
            [path |-> p, old |-> o, new |-> n, severity |-> sev, note |-> note]
        MemoryEntries == {
            Entry(Lit.memory_transparent_hugepage_enabled, Str(Val.always), Str(Val.never),
                  "CRITICAL", None),
            Entry(Lit.memory_swappiness, Str(Val.s60), IntVal(60), "WARNING", None),
            Entry(Path.ksm_run, IntVal(1), None, "WARNING", None),
            Entry(Key.memory, None, True, "INFO", None) }
        IfaceEntries == {
            Entry(Lit.network_interfaces_dot \o Key.eth1, Str(Lit.absent), Str(Lit.present),
                  "INFO", Str(Lit.interface_added)),
            Entry(Path.rings_rx, IntVal(512), Str(Val.s256),
                  "CRITICAL", Str(Lit.ring_size_reduced)) }
        Orders(S) ==
            {q \in [1..Cardinality(S) -> S] :
                 \A i, j \in 1..Cardinality(S) : q[i] = q[j] => i = j}
    IN  {<<>>}
        \cup {<< <<Key.memory, m>>, <<Lit.network, n>> >> :
                  m \in Orders(MemoryEntries), n \in Orders(IfaceEntries)}
        \cup {<< <<Lit.network, n>>, <<Key.memory, m>> >> :
                  m \in Orders(MemoryEntries), n \in Orders(IfaceEntries)}

\* print_console and write_md called on a DiffResult
InitRender ==
    /\ pc = "returned"
    /\ diffs \in RenderInputs
    /\ old = EmptyDict /\ new = EmptyDict /\ only_changed = FALSE
    /\ f_old = EmptyMap /\ f_new = EmptyMap
    /\ exit_on_critical \in BOOLEAN
    /\ md_given \in BOOLEAN
    /\ ncrit = 0 /\ console = <<>> /\ md_report = <<>> /\ exit_status = Running
    /\ IdleExcept({"diff", "main"})

SpecRender == InitRender /\ [][Report]_vars

-----------------------------------------------------------------------------
(* The collector's parser of ethtool's "key: value" lines (latency_sysdump.py) *)

\* Mutant of collector_int: every value is read in base 10.
collector_int_decimal_only(v) ==
    LET t == strip(v)
        u == IF t # <<>> /\ t[1] \in {"+", "-"} THEN Tail(t) ELSE t
    IN  with_sign(prefixed_literal(u, 10), t # <<>> /\ t[1] = "-")

\* lines 460-464: int(v, 16) if v.lower().startswith("0x") else int(v); None
\* when int raises ValueError.  int(t, base) accepts surrounding blanks, one
\* sign, for base 16 an optional 0x prefix, and digits of the base with single
\* underscores between them.
collector_int(v) ==
    LET base == IF startswith(lower(v), <<"0", "x">>) THEN 16 ELSE 10
        t == strip(v)
        u == IF t # <<>> /\ t[1] \in {"+", "-"} THEN Tail(t) ELSE t
        digs == IF base = 16 /\ PrefixBase(u) = 16
                THEN after_prefix(SubSeq(u, 3, Len(u)))
                ELSE u
    IN  with_sign(prefixed_literal(digs, base), t # <<>> /\ t[1] = "-")

\* parse_numeric_map(text): the mapping as a dict in insertion order
parse_numeric_map(text) ==
    LET \* res[k] = x
        set_item(items, k, x) ==
            IF \E i \in 1..Len(items) : items[i][1] = k
            THEN [i \in 1..Len(items) |-> IF items[i][1] = k THEN <<k, x>> ELSE items[i]]
            ELSE Append(items, <<k, x>>)
        \* k.strip().replace(" ", "_")
        key_of(line) ==
            LET k == strip(split_before(line, <<":">>)) IN
            [i \in 1..Len(k) |-> IF k[i] = " " THEN "_" ELSE k[i]]
        \* the try statement of lines 459-466 on v.strip()
        value_of(v) == IF collector_int(v) # None THEN collector_int(v) ELSE Str(v)
        \* the loop body for one line
        line_step(items, line) ==
            IF contains(line, <<":">>)
            THEN set_item(items, key_of(line), value_of(strip(split_after(line, <<":">>))))
            ELSE items
        \* for line in text.splitlines(), the text from character i on
        RECURSIVE lines_loop(_, _, _)
        lines_loop(i, line, items) ==
            IF i > Len(text) THEN line_step(items, line)
            ELSE IF text[i] = "\n" THEN lines_loop(i + 1, <<>>, line_step(items, line))
            ELSE lines_loop(i + 1, Append(line, text[i]), items)
    IN  Dict(lines_loop(1, <<>>, <<>>))

\* Texts passed to parse_numeric_map: one line "rx:" and a value of at most
\* MaxLen characters (with "RX: " as ethtool prints it for the values without
\* a blank), and the texts of test_parse_numeric_map and of ethtool -g.
NumericMapTexts ==
    {<<"r", "x", ":">> \o v : v \in ParseStrings}
    \cup {<<"R", "X", ":", " ">> \o v : v \in {q \in ParseStrings : ~contains(q, <<" ">>)}}
    \cup {<<"r", "x", ":", " ", "5", "1", "2", "\n",
            "t", "x", ":", " ", "0", "x", "1", "0", "0", "\n",
            "n", "a", "m", "e", ":", " ", "e", "t", "h", "0", "\n">>,
          <<"R", "i", "n", "g", " ", "p", "a", "r", "a", "m", "e", "t", "e", "r", "s", "\n",
            "R", "X", " ", "M", "i", "n", "i", ":", " ", "n", "/", "a", "\n",
            "R", "X", ":", " ", "1", ":", "2", "\n",
            "R", "X", ":", " ", "0", "X", "f", "F">>}

InitNumericMap ==
    /\ pc = "numeric_map"
    /\ nm_text \in NumericMapTexts
    /\ nm_ret = None
    /\ IdleExcept({"numeric_map"})

\* nm_ret = parse_numeric_map(nm_text)
ParseNumericMap ==
    /\ pc = "numeric_map"
    /\ nm_ret' = parse_numeric_map(nm_text)
    /\ pc' = "mapped"
    /\ UNCHANGED nm_text
    /\ Frame({"numeric_map"})

SpecNumericMap == InitNumericMap /\ [][ParseNumericMap]_vars

-----------------------------------------------------------------------------

(* The command runner sh (latency_sysdump.py) *)

\* What subprocess.run does: it returns a completed process, or it raises.
\* Texts are character sequences; a bytes object is a sequence of ASCII
\* characters and of "xFF", the byte 0xFF, which no UTF-8 text holds.
\* sh(cmd, timeout) when subprocess.run does what run says, the call having
\* taken dur seconds: the returned dict, or the exception that leaves sh.
\* The words of a command line are strings.
sh(cmd, run, dur) ==
    LET UnicodeDecodeError == [raised |-> "UnicodeDecodeError"]
        \* b.decode(): UnicodeDecodeError on a byte that is no UTF-8
        decode(b) == IF \E i \in 1..Len(b) : b[i] = "xFF" THEN UnicodeDecodeError ELSE Str(b)
        \* e.stdout.decode() if isinstance(e.stdout, (bytes, bytearray)) else (e.stdout or "")
        partial(o) ==
            IF o.t = "bytes" THEN decode(o.v) ELSE IF truthy(o) THEN o ELSE Str(<<>>)
        result(rc, out, err) ==
            [cmd |-> cmd, returncode |-> rc, stdout |-> out, stderr |-> err,
             ok |-> rc = 0, duration |-> dur]
    IN  CASE run.kind = "completed" ->
                result(run.returncode, Str(run.stdout), Str(run.stderr))
          [] run.kind = "FileNotFoundError" ->
                [result(127, Str(<<>>), Str(Append(Lit.executable_not_found, cmd[1])))
                    EXCEPT !.ok = FALSE]
          [] run.kind = "TimeoutExpired" ->
                IF UnicodeDecodeError \in {partial(run.stdout), partial(run.stderr)}
                THEN UnicodeDecodeError
                ELSE [result(124, partial(run.stdout), partial(run.stderr))
                         EXCEPT !.ok = FALSE]
          [] OTHER ->
                [result(1, Str(<<>>), Str(Lit.error_colon \o <<run.kind>>))  \* name and message
                    EXCEPT !.ok = FALSE]

\* The outcomes of subprocess.run: a command that exits (124 and 127 are exit
\* codes like any other), a timeout with the output read so far (bytes, or
\* nothing), and the exceptions of a missing executable, of one that may not
\* be executed, and of output that is no UTF-8.
ShRuns ==
    LET Completed(rc, out, err) ==
            [kind |-> "completed", returncode |-> rc, stdout |-> out, stderr |-> err]
        TimeoutExpired(out, err) ==
            [kind |-> "TimeoutExpired", stdout |-> out, stderr |-> err]
        Raised(name) == [kind |-> name]
        Texts == {<<>>, <<"a">>}
        Partial == {None, Str(<<"a">>)}
                   \cup {[t |-> "bytes", v |-> b] :
                            b \in {<<>>, <<"a">>, <<"xFF">>, <<"a", "xFF">>}}
    IN  {Completed(rc, out, err) : rc \in {0, 1, 3, 124, 127}, out \in Texts, err \in Texts}
        \cup {TimeoutExpired(out, err) : out \in Partial, err \in Partial}
        \cup {Raised(n) : n \in {"FileNotFoundError", "PermissionError", "UnicodeDecodeError"}}

InitSh ==
    /\ pc = "sh"
    /\ sh_run \in ShRuns
    /\ sh_ret = Idle
    /\ IdleExcept({"sh"})

\* sh_ret = sh(["dmesg"]), with the default timeout of 5 seconds
Sh ==
    /\ pc = "sh"
    /\ \E dur \in (IF sh_run.kind = "TimeoutExpired" THEN {5} ELSE {0, 1}) :
          sh_ret' = sh(<<"dmesg">>, sh_run, dur)
    /\ pc' = IF "raised" \in DOMAIN sh_ret' THEN "sh raised" ELSE "ran"
    /\ UNCHANGED sh_run
    /\ Frame({"sh"})

SpecSh == InitSh /\ [][Sh]_vars

-----------------------------------------------------------------------------

(* The collection run (latency_sysdump.py) *)

\* parse_cmdline(cmdline): the parameters as a dict in insertion order, or
\* the ValueError of shlex.split on a quotation that is not closed.  The
\* texts hold no backslash, so a double quote acts as a single one.
parse_cmdline(cmdline) ==
    LET s == strip(cmdline)
        \* shlex.split(s) from character i on: cur is the token read so far,
        \* has tells whether there is one, q is the open quote or "".
        RECURSIVE split(_, _, _, _, _)
        split(i, cur, has, q, toks) ==
            IF i > Len(s)
            THEN [raised |-> q # "", toks |-> IF has THEN Append(toks, cur) ELSE toks]
            ELSE IF q # ""
            THEN IF s[i] = q THEN split(i + 1, cur, TRUE, "", toks)
                 ELSE split(i + 1, Append(cur, s[i]), TRUE, q, toks)
            ELSE IF s[i] = " "
            THEN split(i + 1, <<>>, FALSE, "", IF has THEN Append(toks, cur) ELSE toks)
            ELSE IF s[i] \in {"'", "\""} THEN split(i + 1, cur, TRUE, s[i], toks)
            ELSE split(i + 1, Append(cur, s[i]), TRUE, "", toks)
        tokens == split(1, <<>>, FALSE, "", <<>>).toks
        \* k, v = token.split("=", 1) if "=" in token else (token, "")
        key_of(tok) == split_before(tok, <<"=">>)
        value_of(tok) == IF contains(tok, <<"=">>) THEN split_after(tok, <<"=">>) ELSE <<>>
        \* res[k] = v for the tokens from i on
        RECURSIVE assign(_, _)
        assign(i, items) ==
            IF i > Len(tokens) THEN items
            ELSE assign(i + 1,
                     IF \E j \in 1..Len(items) : items[j][1] = key_of(tokens[i])
                     THEN [j \in 1..Len(items) |->
                              IF items[j][1] = key_of(tokens[i])
                              THEN <<items[j][1], Str(value_of(tokens[i]))>>
                              ELSE items[j]]
                     ELSE Append(items, <<key_of(tokens[i]), Str(value_of(tokens[i]))>>))
    IN  IF split(1, <<>>, FALSE, "", <<>>).raised THEN [raised |-> "ValueError"]
        ELSE Dict(assign(1, <<>>))

-----------------------------------------------------------------------------

\* The environment e of a run: e.tools are the executables shutil_which
\* finds, e.runs the outcome of subprocess.run for a command line, and
\* e.files, for a path, whether it exists and the text a read returns (None
\* when the read raises).

\* read_text(path): the text, or None when the read raised
read_text(e, path) == e.files[path].text

\* Mutant of read_first_line: a read that raised gives the empty string.
read_first_line_or_empty(e, path) ==
    IF e.files[path].text.t = "NoneType" THEN Str(<<>>) ELSE Str(strip(e.files[path].text.v))

\* read_first_line(path): the stripped first line, or None; the texts hold one line
read_first_line(e, path) ==
    IF e.files[path].text.t = "NoneType" THEN None ELSE Str(strip(e.files[path].text.v))

\* sh(cmd) if shutil_which(cmd[0]) else {"ok": False, "stdout": ""}.  When sh
\* raises, the exception leaves the collector: ok and stdout stand beside
\* raised so that the statements after the call can be written, and nothing
\* reads them.
sh_if_which(e, cmd) ==
    IF cmd[1] \notin e.tools THEN [ok |-> FALSE, stdout |-> Str(<<>>)]
    ELSE LET r == sh(cmd, e.runs[cmd], 0)
         IN  IF "raised" \in DOMAIN r
             THEN [raised |-> r.raised, ok |-> FALSE, stdout |-> Str(<<>>)]
             ELSE r

\* A collector returns its attempts in program order, each the field it is
\* for, the file or command line tried and whether the attempt raised, and,
\* when none raised, the category's value and the raw outputs it leaves.

\* collect_kernel(raw): cmdline, cmdline_params and dmesg_snippets
collect_kernel(e, raw) ==
    LET cmdline == IF truthy(read_text(e, "/proc/cmdline"))
                   THEN read_text(e, "/proc/cmdline").v ELSE <<>>
        which == "dmesg" \in e.tools
        dm_color == sh_if_which(e, <<"dmesg", "--color=never">>)
        \* if not dmesg_txt
        again == ~truthy(dm_color.stdout)
        dm == IF again THEN sh_if_which(e, <<"dmesg">>) ELSE dm_color
        dmesg_txt == dm.stdout.v
        \* re.search(r"\b(tsc|clocksource|timekeeping)\b", line, re.IGNORECASE);
        \* the texts hold the words only as whole words
        dmesg_lines ==
            IF dmesg_txt # <<>> /\ \E w \in {<<"t", "s", "c">>, Lit.clocksource, Key.timekeeping} :
                                       contains(lower(dmesg_txt), w)
            THEN <<Str(dmesg_txt)>> ELSE <<>>
        params == parse_cmdline(cmdline)
        attempts ==
            <<[field |-> "cmdline", source |-> <<"/proc/cmdline">>, raised |-> FALSE]>>
            \o (IF which
                THEN <<[field |-> "dmesg_snippets", source |-> <<"dmesg", "--color=never">>,
                        raised |-> "raised" \in DOMAIN dm_color]>>
                ELSE <<>>)
            \o (IF which /\ again /\ "raised" \notin DOMAIN dm_color
                THEN <<[field |-> "dmesg_snippets", source |-> <<"dmesg">>,
                        raised |-> "raised" \in DOMAIN dm]>>
                ELSE <<>>)
            \o (IF "raised" \notin DOMAIN dm
                THEN <<[field |-> "cmdline_params", source |-> <<"parse_cmdline">>,
                        raised |-> "raised" \in DOMAIN params]>>
                ELSE <<>>)
    IN  IF \E i \in 1..Len(attempts) : attempts[i].raised THEN [attempts |-> attempts]
        ELSE [attempts |-> attempts,
              ret |-> Dict(<<KV(Key.cmdline, Str(strip(cmdline))),
                             KV(Key.cmdline_params, params),
                             KV(Key.dmesg_snippets, List(dmesg_lines))>>),
              raw |-> update(raw, ("proc-cmdline.txt" :> Str(cmdline))
                                  @@ ("dmesg.txt" :> Str(dmesg_txt)))]

\* collect_cpu_numa(raw): lscpu_raw, lscpu_e, per_cpu_governors of cpu0 and
\* the kernel's default governor with its source
collect_cpu_numa(e, raw) ==
    LET which == "lscpu" \in e.tools
        lscpu_J == sh_if_which(e, <<"lscpu", "-J">>)
        \* if not lscpu_full.get("ok")
        again == ~lscpu_J.ok
        lscpu_full == IF again /\ "raised" \notin DOMAIN lscpu_J
                      THEN sh_if_which(e, <<"lscpu">>) ELSE lscpu_J
        lscpu_e == IF "raised" \in DOMAIN lscpu_full THEN lscpu_full
                   ELSE sh_if_which(e, <<"lscpu", "-e=CPU,CORE,SOCKET,NODE,ONLINE">>)
        gpath == "/sys/devices/system/cpu/cpu0/cpufreq/scaling_governor"
        \* parse_cpufreq_default_from_config_text(text)[0], of a text of one line
        gov(text) ==
            IF startswith(text, Lit.config_default_gov) /\ endswith(text, Lit.equals_y)
               /\ Len(text) > Len(Lit.config_default_gov) + 2
            THEN Str(lower(SubSeq(text, Len(Lit.config_default_gov) + 1, Len(text) - 2)))
            ELSE None
        cfgp == e.files["/boot/config"]
        boot == cfgp.exists /\ truthy(cfgp.text)
        boot_governor == IF boot THEN gov(cfgp.text.v) ELSE None
        \* gzip.open raises on a file that cannot be read: except Exception: pass
        gz == boot_governor.t = "NoneType" /\ e.files["/proc/config.gz"].exists
        gz_read == gz /\ e.files["/proc/config.gz"].text.t # "NoneType"
        attempts ==
            (IF which
             THEN <<[field |-> "lscpu_raw", source |-> <<"lscpu", "-J">>,
                     raised |-> "raised" \in DOMAIN lscpu_J]>>
             ELSE <<>>)
            \o (IF which /\ again /\ "raised" \notin DOMAIN lscpu_J
                THEN <<[field |-> "lscpu_raw", source |-> <<"lscpu">>,
                        raised |-> "raised" \in DOMAIN lscpu_full]>>
                ELSE <<>>)
            \o (IF which /\ "raised" \notin DOMAIN lscpu_full
                THEN <<[field |-> "lscpu_e", source |-> <<"lscpu", "-e=CPU,CORE,SOCKET,NODE,ONLINE">>,
                        raised |-> "raised" \in DOMAIN lscpu_e]>>
                ELSE <<>>)
            \o (IF "raised" \notin DOMAIN lscpu_e
                THEN <<[field |-> "per_cpu_governors.cpu0", source |-> <<gpath>>, raised |-> FALSE]>>
                     \o (IF cfgp.exists
                         THEN <<[field |-> "kernel_cpufreq_default_governor",
                                 source |-> <<"/boot/config">>, raised |-> FALSE]>>
                         ELSE <<>>)
                     \o (IF gz
                         THEN <<[field |-> "kernel_cpufreq_default_governor",
                                 source |-> <<"/proc/config.gz">>, raised |-> FALSE]>>
                         ELSE <<>>)
                ELSE <<>>)
    IN  IF \E i \in 1..Len(attempts) : attempts[i].raised THEN [attempts |-> attempts]
        ELSE [attempts |-> attempts,
              ret |-> Dict(<<KV(Key.lscpu_raw, lscpu_full.stdout),
                             KV(Key.lscpu_e, lscpu_e.stdout),
                             KV(Key.per_cpu_governors,
                                Dict(<<KV(Val.cpu0, read_first_line(e, gpath))>>)),
                             KV(Key.kernel_cpufreq_default_governor,
                                IF gz_read THEN gov(e.files["/proc/config.gz"].text.v)
                                ELSE boot_governor),
                             KV(Key.kernel_cpufreq_default_source,
                                IF gz_read THEN Str(Val.proc_config_gz)
                                ELSE IF boot THEN Str(Val.boot_config) ELSE None)>>),
              raw |-> update(raw, ("lscpu.txt" :> lscpu_full.stdout)
                                  @@ ("lscpu-e.txt" :> lscpu_e.stdout))]

\* Mutant of collect_affinity_isolation: the kernel's result is not looked at.
collect_affinity_isolation_alone(e, kernel) ==
    LET status == read_text(e, "/proc/self/status")
    IN  [attempts |-> <<[field |-> "process_cpus_allowed_list",
                         source |-> <<"/proc/self/status">>, raised |-> FALSE]>>,
         ret |-> Dict(<<KV(Key.process_cpus_allowed_list,
                           IF status.t # "NoneType" /\ startswith(status.v, Lit.cpus_allowed_list_colon)
                           THEN Str(strip(split_after(status.v, <<":">>))) ELSE None),
                        KV(Key.isolcpus, None), KV(Key.nohz_full, None), KV(Key.rcu_nocbs, None)>>)]

\* collect_affinity_isolation(kernel): the allowed cpus of the process and
\* three parameters of the kernel category's cmdline_params
collect_affinity_isolation(e, kernel) ==
    LET status == read_text(e, "/proc/self/status")
        \* line.split(":", 1)[1].strip() of the line that starts with Cpus_allowed_list:
        cpus_allowed_list ==
            IF status.t # "NoneType" /\ startswith(status.v, Lit.cpus_allowed_list_colon)
            THEN Str(strip(split_after(status.v, <<":">>))) ELSE None
        \* kernel.get("cmdline_params", {})
        params == IF Key.cmdline_params \in dict_keys(kernel)
                  THEN dict_item(kernel, Key.cmdline_params) ELSE EmptyDict
    IN  [attempts |-> <<[field |-> "process_cpus_allowed_list",
                         source |-> <<"/proc/self/status">>, raised |-> FALSE]>>,
         ret |-> Dict(<<KV(Key.process_cpus_allowed_list, cpus_allowed_list),
                        KV(Key.isolcpus, dict_get(params, Key.isolcpus)),
                        KV(Key.nohz_full, dict_get(params, Key.nohz_full)),
                        KV(Key.rcu_nocbs, dict_get(params, Key.rcu_nocbs))>>)]

\* Mutant of collect_timekeeping: timedatectl is run again when it gave no output.
collect_timekeeping_retrying(e, raw) ==
    LET clk == "/sys/devices/system/clocksource/clocksource0/current_clocksource"
        timedate == sh_if_which(e, <<"timedatectl">>)
        retry == "timedatectl" \in e.tools /\ ~truthy(timedate.stdout)
        attempt == [field |-> "timedatectl", source |-> <<"timedatectl">>,
                    raised |-> "raised" \in DOMAIN timedate]
        attempts ==
            <<[field |-> "clocksource_current", source |-> <<clk>>, raised |-> FALSE]>>
            \o (IF "timedatectl" \in e.tools THEN <<attempt>> ELSE <<>>)
            \o (IF retry /\ ~attempt.raised THEN <<attempt>> ELSE <<>>)
    IN  IF \E i \in 1..Len(attempts) : attempts[i].raised THEN [attempts |-> attempts]
        ELSE [attempts |-> attempts,
              ret |-> Dict(<<KV(Key.clocksource_current, read_first_line(e, clk)),
                             KV(Key.timedatectl, timedate.stdout)>>),
              raw |-> update(raw, "timedatectl.txt" :> timedate.stdout)]

\* collect_timekeeping(raw): clocksource_current and timedatectl
collect_timekeeping(e, raw) ==
    LET clk == "/sys/devices/system/clocksource/clocksource0/current_clocksource"
        timedate == sh_if_which(e, <<"timedatectl">>)
        attempts ==
            <<[field |-> "clocksource_current", source |-> <<clk>>, raised |-> FALSE]>>
            \o (IF "timedatectl" \in e.tools
                THEN <<[field |-> "timedatectl", source |-> <<"timedatectl">>,
                        raised |-> "raised" \in DOMAIN timedate]>>
                ELSE <<>>)
    IN  IF \E i \in 1..Len(attempts) : attempts[i].raised THEN [attempts |-> attempts]
        ELSE [attempts |-> attempts,
              ret |-> Dict(<<KV(Key.clocksource_current, read_first_line(e, clk)),
                             KV(Key.timedatectl, timedate.stdout)>>),
              raw |-> update(raw, "timedatectl.txt" :> timedate.stdout)]

\* collect_memory(raw): swappiness and, of ksm, run and pages_to_scan
collect_memory(e, raw) ==
    LET meminfo_txt == IF truthy(read_text(e, "/proc/meminfo"))
                       THEN read_text(e, "/proc/meminfo") ELSE Str(<<>>)
        ksm_dir == e.files["/sys/kernel/mm/ksm"].exists
        ksm == IF ksm_dir
               THEN <<KV(Key.run, read_first_line(e, "/sys/kernel/mm/ksm/run")),
                      KV(Key.pages_to_scan, read_first_line(e, "/sys/kernel/mm/ksm/pages_to_scan"))>>
               ELSE <<>>
    IN  [attempts |->
            <<[field |-> "meminfo", source |-> <<"/proc/meminfo">>, raised |-> FALSE],
              [field |-> "swappiness", source |-> <<"/proc/sys/vm/swappiness">>, raised |-> FALSE]>>
            \o (IF ksm_dir
                THEN <<[field |-> "ksm.run", source |-> <<"/sys/kernel/mm/ksm/run">>,
                        raised |-> FALSE],
                       [field |-> "ksm.pages_to_scan",
                        source |-> <<"/sys/kernel/mm/ksm/pages_to_scan">>, raised |-> FALSE]>>
                ELSE <<>>),
         ret |-> Dict(<<KV(Key.swappiness, read_first_line(e, "/proc/sys/vm/swappiness")),
                        KV(Key.ksm, Dict(ksm))>>),
         raw |-> update(raw, "proc-meminfo.txt" :> meminfo_txt)]

\* collect_network(raw): of the interface eth0, mac, mtu, speed and the
\* rings that ethtool -g prints
collect_network(e, raw) ==
    LET ipath == "/sys/class/net/eth0/"
        which == "ethtool" \in e.tools
        rg == sh_if_which(e, <<"ethtool", "-g", "eth0">>)
        et == IF which THEN <<KV(Key.rings, parse_numeric_map(rg.stdout.v))>> ELSE <<>>
        attempts ==
            <<[field |-> "mac", source |-> <<ipath, "address">>, raised |-> FALSE],
              [field |-> "mtu", source |-> <<ipath, "mtu">>, raised |-> FALSE],
              [field |-> "speed", source |-> <<ipath, "speed">>, raised |-> FALSE]>>
            \o (IF which
                THEN <<[field |-> "ethtool.rings", source |-> <<"ethtool", "-g", "eth0">>,
                        raised |-> "raised" \in DOMAIN rg]>>
                ELSE <<>>)
    IN  IF \E i \in 1..Len(attempts) : attempts[i].raised THEN [attempts |-> attempts]
        ELSE [attempts |-> attempts,
              ret |-> Dict(<<KV(Lit.interfaces,
                                Dict(<<KV(Key.eth0,
                                          Dict(<<KV(Key.mac, read_first_line(e, "/sys/class/net/eth0/address")),
                                                 KV(Key.mtu, read_first_line(e, "/sys/class/net/eth0/mtu")),
                                                 KV(Key.speed, read_first_line(e, "/sys/class/net/eth0/speed")),
                                                 KV(Key.ethtool, Dict(et))>>))>>))>>),
              raw |-> IF which THEN update(raw, "ethtool-g-eth0.txt" :> rg.stdout) ELSE raw]

\* collect_irqs(raw): the interrupts of /proc/interrupts and the affinity
\* list of each
collect_irqs(e, raw) ==
    LET proc_interrupts == IF truthy(read_text(e, "/proc/interrupts"))
                           THEN read_text(e, "/proc/interrupts").v ELSE <<>>
        \* parse_interrupts of a text of one line without a CPU0 heading:
        \* re.match(r"^\s*\d+:", line), irq the digits, no counts, and the
        \* parts after the first joined by a blank (the texts hold single blanks)
        line == lstrip(proc_interrupts)
        irq == split_before(line, <<":">>)
        matched == /\ contains(line, <<":">>) /\ irq # <<>>
                   /\ \A i \in 1..Len(irq) : irq[i] \in {Digits[d] : d \in 1..10}
        parsed == IF matched
                  THEN <<KV(irq, Dict(<<KV(Key.total, None),
                                        KV(Key.desc, Str(strip(split_after(line, <<":">>))))>>))>>
                  ELSE <<>>
        path == "/proc/irq/24/smp_affinity_list"
        listed == matched /\ irq = Key.irq24 /\ e.files[path].exists
    IN  [attempts |->
            <<[field |-> "interrupts", source |-> <<"/proc/interrupts">>, raised |-> FALSE]>>
            \o (IF listed
                THEN <<[field |-> "smp_affinity_list.24", source |-> <<path>>, raised |-> FALSE]>>
                ELSE <<>>),
         ret |-> Dict(<<KV(Key.interrupts, Dict(parsed)),
                        KV(Lit.smp_affinity_list,
                           Dict(IF listed THEN <<KV(irq, read_first_line(e, path))>> ELSE <<>>))>>),
         raw |-> update(raw, "proc-interrupts.txt" :> Str(proc_interrupts))]

\* collect_services_sysctls(raw): the state of irqbalance, the sysctls
\* kernel.timer_migration and kernel.randomize_va_space, and aslr
collect_services_sysctls(e, raw) ==
    LET which == "systemctl" \in e.tools
        s == sh_if_which(e, <<"systemctl", "is-active", "irqbalance">>)
        irqbalance_state == IF which /\ s.ok THEN Str(strip(s.stdout.v)) ELSE None
        \* read_sysctl_path(p): the stripped text of a file that can be read
        read_sysctl_path(p) ==
            IF e.files[p].exists /\ e.files[p].text.t # "NoneType"
            THEN Str(strip(e.files[p].text.v)) ELSE None
        timer_migration == read_sysctl_path("/proc/sys/kernel/timer_migration")
        randomize_va_space == read_sysctl_path("/proc/sys/kernel/randomize_va_space")
        \* if val is not None: sysctls[key] = val
        sysctls ==
            Dict((IF timer_migration.t # "NoneType"
                  THEN <<KV(Key.kernel_timer_migration, timer_migration)>> ELSE <<>>)
                 \o (IF randomize_va_space.t # "NoneType"
                     THEN <<KV(Key.kernel_randomize_va_space, randomize_va_space)>> ELSE <<>>))
        attempts ==
            (IF which
             THEN <<[field |-> "irqbalance.state",
                     source |-> <<"systemctl", "is-active", "irqbalance">>,
                     raised |-> "raised" \in DOMAIN s]>>
             ELSE <<>>)
            \o (IF "raised" \notin DOMAIN s
                THEN <<[field |-> "sysctl.kernel.timer_migration",
                        source |-> <<"/proc/sys/kernel/timer_migration">>, raised |-> FALSE],
                       [field |-> "sysctl.kernel.randomize_va_space",
                        source |-> <<"/proc/sys/kernel/randomize_va_space">>, raised |-> FALSE]>>
                ELSE <<>>)
    IN  IF \E i \in 1..Len(attempts) : attempts[i].raised THEN [attempts |-> attempts]
        ELSE [attempts |-> attempts,
              ret |-> Dict(<<KV(Key.irqbalance, Dict(<<KV(Key.state, irqbalance_state)>>)),
                             KV(Key.sysctl, sysctls),
                             KV(Key.aslr, dict_get(sysctls, Key.kernel_randomize_va_space))>>),
              raw |-> raw]

\* The number of places in which an environment differs from the host where
\* every tool is installed and every file can be read.
MaxFaults == 2

Envs ==
    LET File(text) == [exists |-> TRUE, text |-> Str(text)]
        Unreadable == [exists |-> TRUE, text |-> None]
        Missing == [exists |-> FALSE, text |-> None]
        Completed(rc, out) ==
            [kind |-> "completed", returncode |-> rc, stdout |-> out, stderr |-> <<>>]
        TimeoutExpired(out) == [kind |-> "TimeoutExpired", stdout |-> out, stderr |-> None]
        Host ==
            [tools |-> {"dmesg", "lscpu", "ethtool", "systemctl", "timedatectl"},
             runs |-> (<<"dmesg", "--color=never">> :> Completed(0, Val.tsc))
                      @@ (<<"dmesg">> :> Completed(0, Val.tsc))
                      @@ (<<"lscpu", "-J">> :> Completed(0, Val.cpu0))
                      @@ (<<"lscpu">> :> Completed(0, Val.cpu0))
                      @@ (<<"lscpu", "-e=CPU,CORE,SOCKET,NODE,ONLINE">> :> Completed(0, Val.cpu0))
                      @@ (<<"ethtool", "-g", "eth0">> :> Completed(0, Val.rx_512))
                      @@ (<<"systemctl", "is-active", "irqbalance">> :> Completed(0, Val.active))
                      @@ (<<"timedatectl">> :> Completed(0, Val.utc)),
             files |-> ("/proc/cmdline" :> File(Val.ro_isolcpus))
                       @@ ("/sys/devices/system/cpu/cpu0/cpufreq/scaling_governor" :> File(Val.performance))
                       @@ ("/boot/config" :> File(Val.config_gov))
                       @@ ("/proc/config.gz" :> File(Val.config_gov))
                       @@ ("/proc/self/status" :> File(Val.cpus_allowed))
                       @@ ("/sys/devices/system/clocksource/clocksource0/current_clocksource" :> File(Val.tsc))
                       @@ ("/proc/meminfo" :> File(Val.s60))
                       @@ ("/proc/sys/vm/swappiness" :> File(Val.s60))
                       @@ ("/sys/kernel/mm/ksm" :> [exists |-> TRUE, text |-> None])
                       @@ ("/sys/kernel/mm/ksm/run" :> File(Val.s0))
                       @@ ("/sys/kernel/mm/ksm/pages_to_scan" :> File(Val.s1))
                       @@ ("/sys/class/net/eth0/address" :> File(Val.mac0))
                       @@ ("/sys/class/net/eth0/mtu" :> File(Val.s1500))
                       @@ ("/sys/class/net/eth0/speed" :> File(Val.s1))
                       @@ ("/proc/interrupts" :> File(Val.irq_line))
                       @@ ("/proc/irq/24/smp_affinity_list" :> File(Val.s0_3))
                       @@ ("/proc/sys/kernel/timer_migration" :> File(Val.s1))
                       @@ ("/proc/sys/kernel/randomize_va_space" :> File(Val.s2))]
        Faults ==
            {<<"tools", t>> : t \in Host.tools}
            \cup {<<"runs", cmd, Completed(1, <<>>)>> :
                     cmd \in {<<"dmesg", "--color=never">>, <<"dmesg">>, <<"lscpu", "-J">>,
                              <<"lscpu">>, <<"ethtool", "-g", "eth0">>}}
            \cup {<<"runs", <<"dmesg", "--color=never">>,
                    TimeoutExpired([t |-> "bytes", v |-> <<"xFF">>])>>,
                  <<"runs", <<"ethtool", "-g", "eth0">>, TimeoutExpired(None)>>,
                  <<"runs", <<"systemctl", "is-active", "irqbalance">>, Completed(3, Val.inactive)>>,
                  <<"runs", <<"timedatectl">>, [kind |-> "PermissionError"]>>}
            \cup {<<"files", p, Unreadable>> :
                     p \in {"/proc/cmdline", "/sys/kernel/mm/ksm/run", "/sys/class/net/eth0/address",
                            "/proc/irq/24/smp_affinity_list", "/proc/sys/kernel/timer_migration",
                            "/proc/sys/kernel/randomize_va_space", "/proc/config.gz",
                            "/proc/sys/vm/swappiness", "/proc/interrupts"}}
            \cup {<<"files", p, Missing>> :
                     p \in {"/sys/kernel/mm/ksm", "/proc/irq/24/smp_affinity_list",
                            "/proc/sys/kernel/timer_migration", "/boot/config",
                            "/sys/devices/system/cpu/cpu0/cpufreq/scaling_governor"}}
            \cup {<<"files", "/proc/cmdline", File(Val.unclosed)>>,
                  <<"files", "/boot/config", File(Val.config_hz)>>}
        with(e, f) ==
            CASE f[1] = "tools" -> [e EXCEPT !.tools = @ \ {f[2]}]
              [] f[1] = "runs" -> [e EXCEPT !.runs[f[2]] = f[3]]
              [] f[1] = "files" -> [e EXCEPT !.files[f[2]] = f[3]]
        RECURSIVE Faulty(_)
        Faulty(n) ==
            IF n = 0 THEN {Host}
            ELSE Faulty(n - 1) \cup {with(e, f) : e \in Faulty(n - 1), f \in Faults}
    IN  Faulty(MaxFaults)

\* main() after the directories exist: no category is collected yet
InitCollect ==
    /\ pc = "collect"
    /\ env \in Envs
    /\ step = 1
    /\ data = Dict(<<KV(Key.meta, Dict(<<KV(Key.script_version, Str(Val.v1_0_0))>>))>>)
    /\ raw_blobs = EmptyMap
    /\ calls = <<>>
    /\ IdleExcept({"collect"})

\* The next category of main(): its collector is called and its value is
\* stored under the category's key; an exception of the collector leaves
\* main, which catches none, and nothing is written.  The last step of
\* main writes raw_blobs to raw/ and data to dump.json.  The categories
\* toolchain and containers are left out: their collectors read files and run
\* commands as collect_timekeeping does.
Collect ==
    /\ pc = "collect"
    /\ LET category == <<Key.kernel, Key.cpu_topology, Key.affinity_isolation, Key.timekeeping,
                         Key.memory, Lit.network, Lit.irq, Key.services_sysctl>>
           \* data[category] = r, or the exception of the collector
           store(r) ==
               /\ calls' = calls \o [i \in 1..Len(r.attempts) |->
                                        [category |-> category[step], field |-> r.attempts[i].field,
                                         source |-> r.attempts[i].source]]
               /\ IF "ret" \in DOMAIN r
                  THEN /\ data' = Dict(Append(data.v, KV(category[step], r.ret)))
                       /\ raw_blobs' = IF "raw" \in DOMAIN r THEN r.raw ELSE raw_blobs
                       /\ step' = step + 1
                       /\ pc' = IF step = Len(category) THEN "written" ELSE "collect"
                  ELSE /\ pc' = "aborted"
                       /\ UNCHANGED <<data, raw_blobs, step>>
       IN  store(CASE step = 1 -> collect_kernel(env, raw_blobs)
                   [] step = 2 -> collect_cpu_numa(env, raw_blobs)
                   [] step = 3 -> collect_affinity_isolation(env, dict_item(data, Key.kernel))
                   [] step = 4 -> collect_timekeeping(env, raw_blobs)
                   [] step = 5 -> collect_memory(env, raw_blobs)
                   [] step = 6 -> collect_network(env, raw_blobs)
                   [] step = 7 -> collect_irqs(env, raw_blobs)
                   [] step = 8 -> collect_services_sysctls(env, raw_blobs))
    /\ UNCHANGED env
    /\ Frame({"collect"})

SpecCollect == InitCollect /\ [][Collect]_vars

-----------------------------------------------------------------------------

(* The three functions of the diff engine, each called on its own inputs *)

SpecPure ==
    (InitFlatten \/ InitSeverity \/ InitDiffOn(TopLevelDocs)) /\ [][Flatten \/ SeverityOf \/ DiffDumps]_vars

-----------------------------------------------------------------------------

(* Properties of the comparator run *)

Returned == pc = "returned"

\* Positions of the DiffResult: <<i, j>> is entry j of bucket i.
Positions == UNION {{<<i, j>> : j \in 1..Len(diffs[i][2])} : i \in 1..Len(diffs)}
EntryAt(pos) == diffs[pos[1]][2][pos[2]]
BucketOf(pos) == diffs[pos[1]][1]

\* The addresses of the two flattened maps, and those whose old and new JSON
\* values differ in type or in value (an absent address reads as null).
Addresses == DOMAIN f_old \cup DOMAIN f_new
DifferingAddresses ==
    {k \in Addresses : map_get(f_old, k) # map_get(f_new, k)}

\* Interface names only in old, and only in new.
RemovedIfaces == ifaces_of(old).names \ ifaces_of(new).names
AddedIfaces == ifaces_of(new).names \ ifaces_of(old).names

SyntheticRemoved(name) ==
    [path |-> Lit.network_interfaces_dot \o name, old |-> Str(Lit.present),
     new |-> Str(Lit.absent), severity |-> "INFO", note |-> Str(Lit.interface_removed)]
SyntheticAdded(name) ==
    [path |-> Lit.network_interfaces_dot \o name, old |-> Str(Lit.absent),
     new |-> Str(Lit.present), severity |-> "INFO", note |-> Str(Lit.interface_added)]

IsSynthetic(e) == e.note \in {Str(Lit.interface_removed), Str(Lit.interface_added)}

\* The leaf entries reported for address k.
LeafPositions(k) == {pos \in Positions : EntryAt(pos).path = k /\ ~IsSynthetic(EntryAt(pos))}

\* C1: without filtering, bucket names are distinct and every entry sits in the
\* bucket named category_of(entry.path); every address whose old and new values
\* differ has exactly one leaf entry, carrying its old and new value; every
\* interface name added or removed has exactly one synthetic entry; and the
\* result holds no other entry.
C1_Partitioning ==
    (Returned /\ ~only_changed) =>
        /\ \A i, j \in 1..Len(diffs) : diffs[i][1] = diffs[j][1] => i = j
        /\ \A pos \in Positions : BucketOf(pos) = category_of(EntryAt(pos).path)
        /\ \A k \in DifferingAddresses :
              /\ Cardinality(LeafPositions(k)) = 1
              /\ \A pos \in LeafPositions(k) :
                    /\ EntryAt(pos).old = map_get(f_old, k)
                    /\ EntryAt(pos).new = map_get(f_new, k)
        /\ \A name \in RemovedIfaces :
              Cardinality({pos \in Positions : EntryAt(pos) = SyntheticRemoved(name)}) = 1
        /\ \A name \in AddedIfaces :
              Cardinality({pos \in Positions : EntryAt(pos) = SyntheticAdded(name)}) = 1
        /\ Cardinality(Positions) =
              Cardinality(DifferingAddresses) + Cardinality(RemovedIfaces)
              + Cardinality(AddedIfaces)

\* (rank(e1.severity), e1.path) <= (rank(e2.severity), e2.path)
SeverityPathLeq(e1, e2) ==
    \/ SEV_ORDER[e1.severity] < SEV_ORDER[e2.severity]
    \/ SEV_ORDER[e1.severity] = SEV_ORDER[e2.severity] /\ StrLeq(e1.path, e2.path)

\* C2: in the returned DiffResult every bucket is sorted by severity rank and
\* then by path.
C2_SortedBuckets ==
    Returned =>
        \A i \in 1..Len(diffs) : \A j \in 1..(Len(diffs[i][2]) - 1) :
            SeverityPathLeq(diffs[i][2][j], diffs[i][2][j + 1])

\* The entries of the bucket named network.
NetworkEntries ==
    {EntryAt(pos) : pos \in {q \in Positions : BucketOf(q) = Lit.network}}

\* C3: every interface name only in old has exactly one synthetic "interface
\* removed" entry in the network bucket and every name only in new exactly one
\* "interface added" entry; a name in both, or in neither, has no synthetic
\* entry; and the changed addresses below an added or removed interface keep
\* their leaf entries.
C3_StructuralChanges ==
    Returned =>
        /\ \A name \in RemovedIfaces :
              /\ Cardinality({pos \in Positions :
                      BucketOf(pos) = Lit.network /\ EntryAt(pos) = SyntheticRemoved(name)}) = 1
              /\ SyntheticAdded(name) \notin NetworkEntries
        /\ \A name \in AddedIfaces :
              /\ Cardinality({pos \in Positions :
                      BucketOf(pos) = Lit.network /\ EntryAt(pos) = SyntheticAdded(name)}) = 1
              /\ SyntheticRemoved(name) \notin NetworkEntries
        /\ \A pos \in Positions :
              IsSynthetic(EntryAt(pos)) =>
                  \E name \in RemovedIfaces \cup AddedIfaces :
                      EntryAt(pos) \in {SyntheticRemoved(name), SyntheticAdded(name)}
        /\ \A name \in RemovedIfaces \cup AddedIfaces :
              \A k \in DifferingAddresses :
                  startswith(k, Lit.network_interfaces_dot \o name \o <<".">>) =>
                      LeafPositions(k) # {}

\* A run in which one interface was removed, its vanished addresses have leaf
\* entries, and another interface is present in both documents.
C3_Witness ==
    /\ Returned
    /\ \E name \in RemovedIfaces :
          \E k \in DifferingAddresses :
              /\ startswith(k, Lit.network_interfaces_dot \o name \o <<".">>)
              /\ LeafPositions(k) # {}
    /\ ifaces_of(old).names \cap ifaces_of(new).names # {}

\* Scalars of different JSON types: string, number, boolean, null.
DifferentTypes(x, y) == x.t # y.t

\* C4: two values of different types at one address are always reported as a
\* change.
C4_StrictEquality ==
    Returned =>
        \A k \in DOMAIN f_old \cap DOMAIN f_new :
            DifferentTypes(f_old[k], f_new[k]) => LeafPositions(k) # {}

\* C5: a document diffed against itself in filter mode gives the empty result.
C5_SelfDiffEmpty ==
    (Returned /\ only_changed /\ old = new) => diffs = <<>>

\* A filtered self-diff of a document that has leaves, a null leaf among them,
\* and an interface.
C5_Witness ==
    /\ Returned /\ only_changed /\ old = new
    /\ \E k \in DOMAIN f_old : f_old[k] = None
    /\ ifaces_of(old).names # {}

-----------------------------------------------------------------------------
(* Properties of the flattener run *)

Flattened == pc = "flattened"

KeyStep(k) == [kind |-> "key", name |-> k]
IndexStep(i) == [kind |-> "index", name |-> i]

\* The scalar leaves of x in document order, each as <<steps, scalar>>, where
\* steps are the mapping keys and sequence indices leading to the leaf.
RECURSIVE Leaves(_, _)
RECURSIVE LeavesFrom(_, _, _)
Leaves(x, steps) ==
    IF x.t \in {"dict", "list"} THEN LeavesFrom(x, steps, 1)
    ELSE <<<<steps, x>>>>

LeavesFrom(x, steps, i) ==
    IF i > Len(x.v) THEN <<>>
    ELSE (IF x.t = "dict"
          THEN Leaves(x.v[i][2], Append(steps, KeyStep(x.v[i][1])))
          ELSE Leaves(x.v[i], Append(steps, IndexStep(i - 1))))
         \o LeavesFrom(x, steps, i + 1)

\* The address syntax: p.k for key k under prefix p (k when p is empty),
\* p[i] for index i under prefix p.
RECURSIVE AddressOf(_)
AddressOf(steps) ==
    IF steps = <<>> THEN <<>>
    ELSE LET p == AddressOf(SubSeq(steps, 1, Len(steps) - 1))
             s == steps[Len(steps)]
         IN  IF s.kind = "key"
             THEN (IF p = <<>> THEN s.name ELSE p \o <<".">> \o s.name)
             ELSE p \o <<"[">> \o IntStr(s.name) \o <<"]">>

LeafAddress(leaf) == AddressOf(leaf[1])

Relative(a) == IF a # <<>> /\ a[1] = "[" THEN a ELSE <<".">> \o a

\* The last position of the first step of the relative address r.
StepEnd(r) ==
    IF r[1] = "["
    THEN IF \E i \in 2..Len(r) : r[i] = "]"
         THEN CHOOSE i \in 2..Len(r) : r[i] = "]" /\ \A j \in 2..(i - 1) : r[j] # "]"
         ELSE Len(r)
    ELSE IF \E i \in 2..Len(r) : r[i] \in {".", "["}
         THEN (CHOOSE i \in 2..Len(r) :
                   r[i] \in {".", "["} /\ \A j \in 2..(i - 1) : r[j] \notin {".", "["}) - 1
         ELSE Len(r)

StepText(r) == SubSeq(r, 1, StepEnd(r))
StepRest(r) == SubSeq(r, StepEnd(r) + 1, Len(r))
StepKey(r) == SubSeq(r, 2, StepEnd(r))
IndexText(i) == <<"[">> \o IntStr(i) \o <<"]">>

\* The part of the relative map m below the step text.
Below(m, text) ==
    [rest \in {StepRest(r) : r \in {q \in DOMAIN m : StepText(q) = text}} |->
        m[text \o rest]]

RECURSIVE Renest(_)
Renest(m) ==
    IF DOMAIN m = {} THEN None
    ELSE IF <<>> \in DOMAIN m THEN m[<<>>]
    ELSE IF \A r \in DOMAIN m : r[1] = "["
    THEN List([i \in 1..Cardinality({StepText(r) : r \in DOMAIN m}) |->
                  Renest(Below(m, IndexText(i - 1)))])
    ELSE Dict([i \in 1..Cardinality({StepText(r) : r \in {q \in DOMAIN m : q[1] = "."}}) |->
                  <<sorted({StepKey(r) : r \in {q \in DOMAIN m : q[1] = "."}})[i],
                    Renest(Below(m, <<".">> \o
                        sorted({StepKey(r) : r \in {q \in DOMAIN m : q[1] = "."}})[i]))>>])

RenestDocument(m) ==
    Renest([r \in {Relative(a) : a \in DOMAIN m} |->
               m[CHOOSE a \in DOMAIN m : Relative(a) = r]])

\* Equivalent documents: equal but for the insertion order of mapping keys.
RECURSIVE Equivalent(_, _)
Equivalent(x, y) ==
    IF x.t # y.t THEN FALSE
    ELSE IF x.t = "dict"
    THEN /\ dict_keys(x) = dict_keys(y)
         /\ \A k \in dict_keys(x) : Equivalent(dict_item(x, k), dict_item(y, k))
    ELSE IF x.t = "list"
    THEN /\ Len(x.v) = Len(y.v)
         /\ \A i \in 1..Len(x.v) : Equivalent(x.v[i], y.v[i])
    ELSE x = y

RECURSIVE HasEmptyContainer(_)
HasEmptyContainer(x) ==
    /\ x.t \in {"dict", "list"}
    /\ \/ x.v = <<>>
       \/ \E i \in 1..Len(x.v) :
              HasEmptyContainer(IF x.t = "dict" THEN x.v[i][2] ELSE x.v[i])

\* The mapping keys used anywhere in x.
RECURSIVE KeysIn(_)
KeysIn(x) ==
    IF x.t = "dict"
    THEN dict_keys(x) \cup UNION {KeysIn(x.v[i][2]) : i \in 1..Len(x.v)}
    ELSE IF x.t = "list" THEN UNION {KeysIn(x.v[i]) : i \in 1..Len(x.v)}
    ELSE {}

PlainKey(k) == k # <<>> /\ \A i \in 1..Len(k) : k[i] \notin {".", "["}

\* Every leaf has an address of its own, recorded with the leaf's value, and
\* re-nesting the flattened map gives back an equivalent document.
StructurePreserved ==
    /\ \A i, j \in 1..Len(Leaves(fl_d, <<>>)) :
          LeafAddress(Leaves(fl_d, <<>>)[i]) = LeafAddress(Leaves(fl_d, <<>>)[j]) => i = j
    /\ \A i \in 1..Len(Leaves(fl_d, <<>>)) :
          /\ LeafAddress(Leaves(fl_d, <<>>)[i]) \in DOMAIN fl_ret
          /\ fl_ret[LeafAddress(Leaves(fl_d, <<>>)[i])] = Leaves(fl_d, <<>>)[i][2]
    /\ Equivalent(RenestDocument(fl_ret), fl_d)

\* A document: a mapping at the top, and no empty container anywhere.
DocumentWithoutEmptyContainers == isinstance_dict(fl_d) /\ ~HasEmptyContainer(fl_d)

\* C7 as stated: flattening is injective on leaves and re-nesting reconstructs
\* an equivalent document, for every document without empty containers,
\* whatever its keys.
C7_StructurePreservingAnyKeys ==
    (Flattened /\ DocumentWithoutEmptyContainers) => StructurePreserved

\* C7 amended: the same for every document without empty containers whose
\* mapping keys are non-empty and contain neither "." nor "[".
C7_StructurePreservingPlainKeys ==
    (Flattened /\ DocumentWithoutEmptyContainers /\ \A k \in KeysIn(fl_d) : PlainKey(k))
        => StructurePreserved

\* A flattened document of plain keys with a mapping and a sequence below the
\* top and three leaves.
C7_Witness ==
    /\ Flattened /\ DocumentWithoutEmptyContainers
    /\ \A k \in KeysIn(fl_d) : PlainKey(k)
    /\ Cardinality(DOMAIN fl_ret) = 3
    /\ \E i, j \in 1..Len(fl_d.v) : fl_d.v[i][2].t = "dict" /\ fl_d.v[j][2].t = "list"
    /\ StructurePreserved

-----------------------------------------------------------------------------
(* Properties of the classifier run *)

Classified == pc = "classified"

Severities == {"CRITICAL", "WARNING", "INFO"}

\* The exact paths and the prefixes of the rule table.
RuleExactPaths == {
    Lit.kernel_uname_release, Lit.kernel_cmdline, Lit.timekeeping_clocksource_current,
    Lit.cpu_topology_smt_active, Lit.cpu_topology_lscpu_hash,
    Lit.memory_transparent_hugepage_enabled, Lit.toolchain_libstdcxx_max_glibcxx,
    Lit.services_sysctl_irqbalance_state, Lit.memory_overcommit_memory,
    Lit.memory_swappiness }

RulePrefixes == {
    Lit.cpu_topology_per_cpu_governors_dot, Lit.irq_smp_affinity_list_dot,
    Lit.network_interfaces_dot, Lit.memory_ksm_dot, Lit.toolchain_dot,
    Lit.network_routes_dot, Lit.services_sysctl_sysctl_dot, Lit.timekeeping_ptp_devices,
    Lit.containers_dot }

MatchedByARule(p) == p \in RuleExactPaths \/ \E q \in RulePrefixes : startswith(p, q)

\* C8: severity_of returns one of CRITICAL, WARNING, INFO with a note or none,
\* for every path, value pair and context, the empty context included; a path
\* that no rule matches gets INFO and no note; and every entry of a returned
\* DiffResult carries one of the three severities.
C8_SeverityTotal ==
    /\ Classified =>
          /\ Len(sv_ret) = 2
          /\ sv_ret[1] \in Severities
          /\ sv_ret[2] = None \/ sv_ret[2].t = "str"
          /\ ~MatchedByARule(sv_path) => sv_ret = <<"INFO", None>>
    /\ Returned => \A pos \in Positions : EntryAt(pos).severity \in Severities

\* A path of no rule classified under the empty context.
C8_Witness ==
    /\ Classified
    /\ ~MatchedByARule(sv_path)
    /\ sv_context = EmptyDict
    /\ sv_old # sv_new
    /\ sv_ret = <<"INFO", None>>

UnderInterfaces == startswith(sv_path, Lit.network_interfaces_dot)
MatchesFeatures == UnderInterfaces /\ contains(sv_path, Lit.dot_ethtool_features_dot)
MatchesRings == UnderInterfaces /\ contains(sv_path, Lit.dot_ethtool_rings_dot)
MatchesChannels == UnderInterfaces /\ contains(sv_path, Lit.dot_ethtool_channels_dot)
MatchesCoalesce == UnderInterfaces /\ contains(sv_path, Lit.dot_ethtool_coalesce_dot)
MatchesMtu == UnderInterfaces /\ endswith(sv_path, Lit.dot_mtu)

\* C9: the first matching rule decides.  toolchain.libstdcxx_max_glibcxx is
\* CRITICAL and every other path under toolchain. is WARNING; under
\* network.interfaces. the first of the features, rings, channels, coalesce and
\* mtu rules that matches gives one of its own outcomes, and the INFO
\* catch-all decides only where none of them matches.
C9_FirstMatchWins ==
    Classified =>
        /\ sv_path = Lit.toolchain_libstdcxx_max_glibcxx =>
              sv_ret = <<"CRITICAL", Str(Lit.libstdcxx_abi_level_changed)>>
        /\ (startswith(sv_path, Lit.toolchain_dot)
                /\ sv_path # Lit.toolchain_libstdcxx_max_glibcxx) =>
              sv_ret = <<"WARNING", None>>
        /\ UnderInterfaces =>
              IF MatchesFeatures
              THEN sv_ret \in {<<"CRITICAL", None>>, <<"WARNING", None>>}
              ELSE IF MatchesRings
              THEN sv_ret \in {<<"CRITICAL", Str(Lit.ring_size_reduced)>>, <<"INFO", None>>}
              ELSE IF MatchesChannels
              THEN sv_ret \in {<<"CRITICAL", Str(Lit.channels_reduced)>>, <<"INFO", None>>}
              ELSE IF MatchesCoalesce
              THEN sv_ret \in {<<"CRITICAL", Str(Lit.coalesce_changed_drastically)>>,
                               <<"WARNING", None>>}
              ELSE IF MatchesMtu
              THEN sv_ret = <<"WARNING", None>>
              ELSE sv_ret = <<"INFO", None>>

\* The ABI path, which the toolchain. prefix rule also matches, classified.
C9_Witness ==
    /\ Classified
    /\ sv_path = Lit.toolchain_libstdcxx_max_glibcxx
    /\ startswith(sv_path, Lit.toolchain_dot)
    /\ sv_ret[1] = "CRITICAL"

\* s spells "performance" in some mix of upper and lower case.
IsPerformanceAnyCase(s) ==
    /\ Len(s) = Len(Lit.performance)
    /\ \A i \in 1..Len(s) : s[i] \in {Lit.performance[i], Val.PERFORMANCE[i]}

\* The new value is absent, empty, or "performance" in any letter case.
NewIsAbsentEmptyOrPerformance ==
    \/ sv_new = None
    \/ sv_new.t = "str" /\ (sv_new.v = <<>> \/ IsPerformanceAnyCase(sv_new.v))

\* C10: for a path under cpu_topology.per_cpu_governors. the result is
\* (WARNING, no note) when the new value is absent, empty or "performance" in
\* any letter case, and (CRITICAL, "governor != performance") otherwise; the
\* old value has no part in it.
C10_GovernorRule ==
    (Classified /\ startswith(sv_path, Lit.cpu_topology_per_cpu_governors_dot)) =>
        sv_ret = IF NewIsAbsentEmptyOrPerformance
                 THEN <<"WARNING", None>>
                 ELSE <<"CRITICAL", Str(Lit.governor_ne_performance)>>

\* A governor path whose new value is "PERFORMANCE" and whose old value is
\* "powersave", classified WARNING.
C10_Witness ==
    /\ Classified
    /\ sv_path = Path.governor_cpu0
    /\ sv_old = Str(Val.powersave)
    /\ sv_new = Str(Val.PERFORMANCE)
    /\ sv_ret = <<"WARNING", None>>

-----------------------------------------------------------------------------
(* Properties of the numeric rules *)

Parsed == pc = "parsed"

IsDecimalDigits(t) == t # <<>> /\ \A i \in 1..Len(t) : DigitVal(t[i]) < 10
IsHexDigits(t) == t # <<>> /\ \A i \in 1..Len(t) : DigitVal(t[i]) < 16

RECURSIVE NumeralValue(_, _)
NumeralValue(t, base) ==
    IF t = <<>> THEN 0
    ELSE NumeralValue(SubSeq(t, 1, Len(t) - 1), base) * base + DigitVal(t[Len(t)])

\* An unsigned numeral: decimal digits, or hexadecimal digits after "0x".
IsNumeral(t) ==
    \/ IsDecimalDigits(t)
    \/ Len(t) > 2 /\ t[1] = "0" /\ t[2] \in {"x", "X"} /\ IsHexDigits(SubSeq(t, 3, Len(t)))

NumeralOf(t) ==
    IF IsDecimalDigits(t) THEN NumeralValue(t, 10)
    ELSE NumeralValue(SubSeq(t, 3, Len(t)), 16)

Unsigned(t) == IF t # <<>> /\ t[1] \in {"+", "-"} THEN SubSeq(t, 2, Len(t)) ELSE t

\* The text of a string between its surrounding blanks.
RECURSIVE Trimmed(_)
Trimmed(t) ==
    IF t # <<>> /\ t[1] = " " THEN Trimmed(SubSeq(t, 2, Len(t)))
    ELSE IF t # <<>> /\ t[Len(t)] = " " THEN Trimmed(SubSeq(t, 1, Len(t) - 1))
    ELSE t

\* A value that is a decimal or 0x-prefixed hexadecimal integer: a number, or
\* a string spelling one, with a sign and surrounding blanks allowed.
IsDecimalOrHex(x) ==
    \/ x.t = "int"
    \/ x.t = "str" /\ IsNumeral(Unsigned(Trimmed(x.v)))

\* The integer such a value stands for.
IntegerOf(x) ==
    IF x.t = "int" THEN x.v
    ELSE IF Trimmed(x.v)[1] = "-" THEN -NumeralOf(Unsigned(Trimmed(x.v)))
    ELSE NumeralOf(Unsigned(Trimmed(x.v)))

RingsPath == MatchesRings /\ ~MatchesFeatures
ChannelsPath == MatchesChannels /\ ~MatchesFeatures /\ ~MatchesRings
CoalescePath ==
    MatchesCoalesce /\ ~MatchesFeatures /\ ~MatchesRings /\ ~MatchesChannels

BothIntegers == IsDecimalOrHex(sv_old) /\ IsDecimalOrHex(sv_new)

\* C11: for a path under network.interfaces.*.ethtool.rings.* the result is
\* (CRITICAL, "ring size reduced") exactly when old and new are both integers
\* and new < old, and (INFO, no note) in every other case; the same for
\* .channels.* with the note "channels reduced".
C11_RingChannelReduction ==
    Classified =>
        /\ RingsPath =>
              sv_ret = IF BothIntegers /\ IntegerOf(sv_new) < IntegerOf(sv_old)
                       THEN <<"CRITICAL", Str(Lit.ring_size_reduced)>>
                       ELSE <<"INFO", None>>
        /\ ChannelsPath =>
              sv_ret = IF BothIntegers /\ IntegerOf(sv_new) < IntegerOf(sv_old)
                       THEN <<"CRITICAL", Str(Lit.channels_reduced)>>
                       ELSE <<"INFO", None>>

Distance(x, y) == IF x < y THEN y - x ELSE x - y

\* C12: for a path under network.interfaces.*.ethtool.coalesce.* the result is
\* (CRITICAL, "coalesce changed drastically") exactly when old and new are both
\* integers and |new - old| >= 32, and (WARNING, no note) otherwise.
C12_CoalesceThreshold ==
    (Classified /\ CoalescePath) =>
        sv_ret = IF BothIntegers /\ Distance(IntegerOf(sv_new), IntegerOf(sv_old)) >= 32
                 THEN <<"CRITICAL", Str(Lit.coalesce_changed_drastically)>>
                 ELSE <<"WARNING", None>>

\* C13: parse_int gives an integer exactly for the decimal and the 0x-prefixed
\* hexadecimal values, numbers or strings, and that integer is the value's; it
\* raises for no value; and when either side of a numeric rule is no such
\* value the result is the family's default, (INFO, no note) for rings and
\* channels and (WARNING, no note) for coalesce.
C13_DecimalOrHexOnly ==
    /\ Parsed =>
          /\ pi_ret # None <=> IsDecimalOrHex(pi_v)
          /\ pi_ret # None => pi_ret = IntVal(IntegerOf(pi_v))
    /\ (Classified /\ ~BothIntegers) =>
          /\ (RingsPath \/ ChannelsPath) => sv_ret = <<"INFO", None>>
          /\ CoalescePath => sv_ret = <<"WARNING", None>>

(***************************************************************************)
(* Properties of the offload feature rule                                  *)
(***************************************************************************)
\* The feature name of a path: its text after the first ".ethtool.features.".
FeatureStart(p) ==
    CHOOSE i \in 1..Len(p) :
        /\ match_at(p, Lit.dot_ethtool_features_dot, i)
        /\ \A j \in 1..(i - 1) : ~match_at(p, Lit.dot_ethtool_features_dot, j)
FeatureName(p) == SubSeq(p, FeatureStart(p) + Len(Lit.dot_ethtool_features_dot), Len(p))

OffloadSet == {
    <<"g","e","n","e","r","i","c","-","r","e","c","e","i","v","e","-","o","f","f","l","o","a","d">>,
    <<"l","a","r","g","e","-","r","e","c","e","i","v","e","-","o","f","f","l","o","a","d">>,
    <<"t","c","p","-","s","e","g","m","e","n","t","a","t","i","o","n","-","o","f","f","l","o","a","d">>,
    <<"t","s","o">>, <<"g","s","o">>, <<"l","r","o">>,
    <<"r","x","-","c","h","e","c","k","s","u","m","m","i","n","g">>,
    <<"t","x","-","c","h","e","c","k","s","u","m","m","i","n","g">>,
    <<"s","c","a","t","t","e","r","-","g","a","t","h","e","r">> }

IsSubstring(f, t) == \E i \in 1..(Len(t) - Len(f) + 1) : SubSeq(t, i, i + Len(f) - 1) = f
NamesOffload(p) == \E f \in OffloadSet : IsSubstring(f, FeatureName(p))
IsFeaturePath(p) ==
    startswith(p, Lit.network_interfaces_dot) /\ contains(p, Lit.dot_ethtool_features_dot)
FeatureSeverity(p) == IF NamesOffload(p) THEN "CRITICAL" ELSE "WARNING"

\* C14: a leaf under network.interfaces.*.ethtool.features.* is CRITICAL when
\* its feature name contains a member of the offload set and WARNING otherwise,
\* with no note, whatever the old and new values; in a diff run every entry on
\* such a path carries that severity and lies in the category network.
C14_OffloadFeatures ==
    /\ (Classified /\ IsFeaturePath(sv_path)) =>
          sv_ret = <<FeatureSeverity(sv_path), None>>
    /\ Returned =>
          \A q \in Positions :
              (~IsSynthetic(EntryAt(q)) /\ IsFeaturePath(EntryAt(q).path)) =>
                  /\ EntryAt(q).severity = FeatureSeverity(EntryAt(q).path)
                  /\ EntryAt(q).note = None
                  /\ BucketOf(q) = Lit.network

\* A classification of a feature whose interface is named after an offload, or
\* a diff in which tcp-segmentation-offload goes from true to false.
C14_Witness ==
    \/ Classified /\ sv_path = Path.features_on_tso0 /\ sv_old = True /\ sv_new = False
    \/ /\ Returned
       /\ \E q \in Positions :
              /\ EntryAt(q).path = Path.features_tcp_seg
              /\ EntryAt(q).old = True /\ EntryAt(q).new = False
              /\ EntryAt(q).severity = "CRITICAL"

(***************************************************************************)
(* Properties of the irqbalance rule                                       *)
(***************************************************************************)
\* The value at key k of document d, null when d is no mapping or has no k.
Member(d, k) ==
    IF d.t = "dict" /\ \E i \in 1..Len(d.v) : d.v[i][1] = k
    THEN d.v[CHOOSE i \in 1..Len(d.v) : d.v[i][1] = k][2]
    ELSE None

\* The snapshot defines at least one entry under irq.smp_affinity_list.
DefinesAffinityEntry(d) ==
    LET aff == Member(Member(d, Lit.irq), Lit.smp_affinity_list)
    IN  aff.t \in {"dict", "list"} /\ aff.v # <<>>

IrqbalanceEntries == {q \in Positions : EntryAt(q).path = Lit.services_sysctl_irqbalance_state}

\* C15: in a diff run a change at services_sysctl.irqbalance.state is CRITICAL
\* with note "irqbalance change with IRQ pinning" when at least one of the two
\* snapshots defines at least one entry under irq.smp_affinity_list, and
\* WARNING with no note when neither does (the irq category missing, null or
\* malformed in both included).
C15_IrqbalanceWithPinning ==
    Returned =>
        \A q \in IrqbalanceEntries :
            <<EntryAt(q).severity, EntryAt(q).note>> =
                IF DefinesAffinityEntry(old) \/ DefinesAffinityEntry(new)
                THEN <<"CRITICAL", Str(Lit.irqbalance_change_with_irq_pinning)>>
                ELSE <<"WARNING", None>>

(***************************************************************************)
(* Properties of the unconditional rules                                   *)
(***************************************************************************)
AlwaysCriticalPaths == {
    <<"k","e","r","n","e","l",".","u","n","a","m","e",".","r","e","l","e","a","s","e">>,
    <<"k","e","r","n","e","l",".","c","m","d","l","i","n","e">>,
    <<"t","i","m","e","k","e","e","p","i","n","g",".","c","l","o","c","k","s","o","u","r","c","e","_","c","u","r","r","e","n","t">>,
    <<"c","p","u","_","t","o","p","o","l","o","g","y",".","s","m","t","_","a","c","t","i","v","e">>,
    <<"m","e","m","o","r","y",".","t","r","a","n","s","p","a","r","e","n","t","_","h","u","g","e","p","a","g","e",".","e","n","a","b","l","e","d">> }
\* kernel.uname.release, kernel.cmdline, timekeeping.clocksource_current,
\* cpu_topology.smt_active, memory.transparent_hugepage.enabled

AffinityPrefix == <<"i","r","q",".","s","m","p","_","a","f","f","i","n","i","t","y","_","l","i","s","t",".">>  \* "irq.smp_affinity_list."

AlwaysCritical(p) ==
    \/ p \in AlwaysCriticalPaths
    \/ Len(p) >= Len(AffinityPrefix) /\ SubSeq(p, 1, Len(AffinityPrefix)) = AffinityPrefix

\* C16: kernel.uname.release, kernel.cmdline, timekeeping.clocksource_current,
\* cpu_topology.smt_active, memory.transparent_hugepage.enabled and every path
\* under irq.smp_affinity_list. are CRITICAL with no note for every old value,
\* new value and context.
C16_UnconditionalCritical ==
    (Classified /\ AlwaysCritical(sv_path)) => sv_ret = <<"CRITICAL", None>>

\* The kernel release with equal old and new values, and an affinity entry
\* that vanished, both classified.
C16_Witness ==
    /\ Classified
    /\ \/ sv_path = Lit.kernel_uname_release /\ sv_old = sv_new
       \/ sv_path = Path.irq_affinity_24 /\ sv_new = None /\ sv_old # None
    /\ sv_ret = <<"CRITICAL", None>>

(***************************************************************************)
(* Properties of the grouping                                              *)
(***************************************************************************)
\* The address separators: the dot before a mapping key and the bracket
\* before a sequence index.
IsSeparator(c) == c \in {".", "["}

\* The text of address p before its first separator, p itself if it has none.
BeforeFirstSeparator(p) ==
    IF \E i \in 1..Len(p) : IsSeparator(p[i])
    THEN SubSeq(p, 1, (CHOOSE i \in 1..Len(p) :
                          /\ IsSeparator(p[i])
                          /\ \A j \in 1..(i - 1) : ~IsSeparator(p[j])) - 1)
    ELSE p

TopLevelKeys(d) == {d.v[i][1] : i \in 1..Len(d.v)}

\* C17: every entry lies in the bucket named by the text of its address
\* before the first address separator (network.interfaces.eth0.mtu in
\* "network", c[0] in "c"), and so every bucket name is a top-level key of the
\* old or of the new document.
C17_CategoryIsTopLevelKey ==
    Returned =>
        /\ \A q \in Positions : BucketOf(q) = BeforeFirstSeparator(EntryAt(q).path)
        /\ \A i \in 1..Len(diffs) : diffs[i][1] \in TopLevelKeys(old) \cup TopLevelKeys(new)

(***************************************************************************)
(* Properties of the filter mode                                           *)
(***************************************************************************)
\* What diff_dumps returns for the same documents without the filter.
Unfiltered == diff_dumps(old, new, FALSE)

\* A DiffResult restricted to its categories with at least one entry.
RECURSIVE NonEmptyFrom(_, _)
NonEmptyFrom(r, i) ==
    IF i > Len(r) THEN <<>>
    ELSE IF Len(r[i][2]) >= 1 THEN <<r[i]>> \o NonEmptyFrom(r, i + 1)
    ELSE NonEmptyFrom(r, i + 1)

\* C18: with only_changed the result has no category with an empty sequence
\* and equals the result without only_changed restricted to the categories
\* that have an entry, the entries and their order unchanged.
C18_FilterRemovesEmptyOnly ==
    (Returned /\ only_changed) =>
        /\ \A i \in 1..Len(diffs) : diffs[i][2] # <<>>
        /\ ~Unfiltered.raised
        /\ diffs = NonEmptyFrom(Unfiltered.diffs, 1)

\* A filtered run that reports entries in two categories or more.
C18_Witness ==
    /\ Returned
    /\ only_changed
    /\ Len(diffs) >= 2
    /\ \E i \in 1..Len(diffs) : Len(diffs[i][2]) >= 2

(***************************************************************************)
(* Properties of the exit status                                           *)
(***************************************************************************)
Exited == pc = "exited"

EntriesOfSeverity(sev) == {q \in Positions : EntryAt(q).severity = sev}

\* C19: the count print_console returns is the number of CRITICAL entries of
\* the DiffResult; the run exits with status 2 exactly when --exit-on-critical
\* is set and there is a CRITICAL entry, and with status 0 otherwise, whatever
\* the number of WARNING and INFO entries.
C19_ExitOnCritical ==
    Exited =>
        /\ ncrit = Cardinality(EntriesOfSeverity("CRITICAL"))
        /\ exit_status = IF exit_on_critical /\ EntriesOfSeverity("CRITICAL") # {}
                         THEN 2 ELSE 0

\* A run that exits 2 on two CRITICAL entries or more, or one that exits 0
\* with the flag set and WARNING entries only.
C19_Witness ==
    /\ Exited
    /\ exit_on_critical
    /\ \/ exit_status = 2 /\ Cardinality(EntriesOfSeverity("CRITICAL")) >= 2
       \/ /\ exit_status = 0
          /\ EntriesOfSeverity("WARNING") # {}
          /\ EntriesOfSeverity("CRITICAL") = {}

(***************************************************************************)
(* Properties of the rendered order                                        *)
(***************************************************************************)
SeverityNames ==
    [CRITICAL |-> <<"C","R","I","T","I","C","A","L">>,
     WARNING |-> <<"W","A","R","N","I","N","G">>,
     INFO |-> <<"I","N","F","O">>]

SeverityRank == [CRITICAL |-> 1, WARNING |-> 2, INFO |-> 3]

\* The severity whose name stands at index i of line l.
SeverityAt(l, i) == CHOOSE sev \in Severities : match_at(l, SeverityNames[sev], i)

\* Console lines of entries read "[SEVERITY] path: ...", the path from index 12.
IsConsoleEntry(l) == Len(l) >= 12 /\ l[1] = "["
ConsoleSeverity(l) == SeverityAt(l, 2)
ConsolePath(l) == split_before(SubSeq(l, 12, Len(l)), <<":", " ">>)

\* Report lines of entries read "- [SEVERITY] 'path': ...", the path between
\* the two grave accents; a category heading reads "## category".
IsReportEntry(l) == Len(l) >= 3 /\ l[1] = "-" /\ l[2] = " " /\ l[3] = "["
ReportSeverity(l) == SeverityAt(l, 4)
ReportPath(l) ==
    LET from == CHOOSE i \in 1..Len(l) :
                    l[i] = "backtick" /\ \A j \in 1..(i - 1) : l[j] # "backtick"
        to == CHOOSE i \in (from + 1)..Len(l) :
                    l[i] = "backtick" /\ \A j \in (from + 1)..(i - 1) : l[j] # "backtick"
    IN  SubSeq(l, from + 1, to - 1)
IsHeading(l) == Len(l) >= 3 /\ l[1] = "#" /\ l[2] = "#" /\ l[3] = " "
HeadingCategory(l) == SubSeq(l, 4, Len(l))

\* CRITICAL before WARNING before INFO, and ascending paths within a severity.
InOrder(sev1, path1, sev2, path2) ==
    \/ SeverityRank[sev1] < SeverityRank[sev2]
    \/ sev1 = sev2 /\ StrLeq(path1, path2)

ConsoleEntries == {i \in 1..Len(console) : IsConsoleEntry(console[i])}
ReportEntries == {i \in 1..Len(md_report) : IsReportEntry(md_report[i])}
Headings == {i \in 1..Len(md_report) : IsHeading(md_report[i])}

\* The heading above line i of the report.
HeadingOf(i) == CHOOSE h \in Headings : h < i /\ \A g \in Headings : g < i => g <= h

\* Every entry of the DiffResult has its line.
AllEntriesListed ==
    /\ Cardinality(ConsoleEntries) = Cardinality(Positions)
    /\ \A q \in Positions : \E i \in ConsoleEntries :
           /\ ConsoleSeverity(console[i]) = EntryAt(q).severity
           /\ ConsolePath(console[i]) = EntryAt(q).path
    /\ md_given =>
           /\ Cardinality(ReportEntries) = Cardinality(Positions)
           /\ \A q \in Positions : \E i \in ReportEntries :
                  /\ ReportSeverity(md_report[i]) = EntryAt(q).severity
                  /\ ReportPath(md_report[i]) = EntryAt(q).path
                  /\ HeadingCategory(md_report[HeadingOf(i)]) = BucketOf(q)

\* C20: on the console and in the Markdown report the lines of a category
\* list CRITICAL before WARNING before INFO and equal severities by ascending
\* path, whatever the order of the entries in the DiffResult; the report
\* lists the categories in ascending order of name.
C20_RenderedOrder ==
    Exited =>
        /\ AllEntriesListed
        /\ \A i, j \in ConsoleEntries :
               (i < j /\ BeforeFirstSeparator(ConsolePath(console[i]))
                           = BeforeFirstSeparator(ConsolePath(console[j]))) =>
                   InOrder(ConsoleSeverity(console[i]), ConsolePath(console[i]),
                           ConsoleSeverity(console[j]), ConsolePath(console[j]))
        /\ \A i, j \in ReportEntries :
               (i < j /\ HeadingOf(i) = HeadingOf(j)) =>
                   InOrder(ReportSeverity(md_report[i]), ReportPath(md_report[i]),
                           ReportSeverity(md_report[j]), ReportPath(md_report[j]))
        /\ \A g, h \in Headings :
               g < h => StrLess(HeadingCategory(md_report[g]), HeadingCategory(md_report[h]))

\* A report written from a DiffResult that names network before memory and
\* lists an INFO entry before a CRITICAL one.
C20_Witness ==
    /\ Exited
    /\ md_given
    /\ Len(diffs) = 2
    /\ StrLess(diffs[2][1], diffs[1][1])
    /\ \E i \in 1..Len(diffs) : \E j, k \in 1..Len(diffs[i][2]) :
           j < k /\ diffs[i][2][j].severity = "INFO" /\ diffs[i][2][k].severity = "CRITICAL"
    /\ Cardinality(ReportEntries) = Cardinality(Positions)

-----------------------------------------------------------------------------
(* Absent addresses *)

\* Addresses that are missing from one flattened map and null or missing in
\* the other.
NullOrAbsentAddresses ==
    {k \in Addresses :
        /\ k \notin DOMAIN f_old \/ k \notin DOMAIN f_new
        /\ k \in DOMAIN f_old => f_old[k] = None
        /\ k \in DOMAIN f_new => f_new[k] = None}

\* C29: an address that is null in one snapshot and missing from the other has
\* no entry, and every leaf entry has old != new with old or new not null.
C29_AbsentIsNull ==
    Returned =>
        /\ \A k \in NullOrAbsentAddresses : LeafPositions(k) = {}
        /\ \A pos \in Positions :
              ~IsSynthetic(EntryAt(pos)) =>
                  /\ ~py_eq(EntryAt(pos).old, EntryAt(pos).new)
                  /\ EntryAt(pos).old # None \/ EntryAt(pos).new # None

\* A run with an address that is null in one snapshot and missing from the
\* other, and with a leaf entry for another address that went missing.
C29_Witness ==
    /\ Returned
    /\ NullOrAbsentAddresses # {}
    /\ \E pos \in Positions :
          /\ ~IsSynthetic(EntryAt(pos))
          /\ EntryAt(pos).new = None
          /\ EntryAt(pos).path \notin DOMAIN f_new

-----------------------------------------------------------------------------
(* Notes *)

\* The synthetic entries of the interface names added or removed.
SyntheticEntries ==
    {SyntheticRemoved(name) : name \in RemovedIfaces}
        \cup {SyntheticAdded(name) : name \in AddedIfaces}

EntryFields == {"path", "old", "new", "severity", "note"}

\* C30: a classification with a note is CRITICAL; in a DiffResult an entry with
\* a note is a CRITICAL leaf entry or a synthetic added/removed entry, which is
\* INFO; and every entry has the five fields path, old, new, severity, note.
C30_NotesOnCriticalOrSynthetic ==
    /\ (Classified /\ sv_ret[2] # None) => sv_ret[1] = "CRITICAL"
    /\ Returned =>
          \A q \in Positions :
              /\ DOMAIN EntryAt(q) = EntryFields
              /\ EntryAt(q).severity \in DOMAIN SEV_ORDER
              /\ EntryAt(q) \in SyntheticEntries => EntryAt(q).severity = "INFO"
              /\ (EntryAt(q).note # None /\ EntryAt(q) \notin SyntheticEntries) =>
                    EntryAt(q).severity = "CRITICAL"

\* A DiffResult with a synthetic entry, a CRITICAL leaf entry that has a note
\* and a WARNING or INFO leaf entry.
C30_Witness ==
    /\ Returned
    /\ \E q \in Positions : EntryAt(q) \in SyntheticEntries /\ EntryAt(q).note # None
    /\ \E q \in Positions :
          /\ EntryAt(q) \notin SyntheticEntries
          /\ EntryAt(q).severity = "CRITICAL"
          /\ EntryAt(q).note # None
    /\ \E q \in Positions :
          EntryAt(q) \notin SyntheticEntries /\ EntryAt(q).severity # "CRITICAL"

-----------------------------------------------------------------------------
(* Insertion order of mapping keys *)

\* The documents that differ from x in the insertion order of mapping keys
\* only, x included.
RECURSIVE Reorderings(_)
RECURSIVE ReorderedItems(_)
RECURSIVE ReorderedElements(_)
Reorderings(x) ==
    IF x.t = "dict" THEN {Dict(items) : items \in ReorderedItems(x.v)}
    ELSE IF x.t = "list" THEN {List(xs) : xs \in ReorderedElements(x.v)}
    ELSE {x}
ReorderedItems(items) ==
    IF items = <<>> THEN {<<>>}
    ELSE UNION {{<< <<items[i][1], c>> >> \o r :
                    c \in Reorderings(items[i][2]),
                    r \in ReorderedItems(SubSeq(items, 1, i - 1)
                                             \o SubSeq(items, i + 1, Len(items)))} :
                i \in 1..Len(items)}
ReorderedElements(xs) ==
    IF xs = <<>> THEN {<<>>}
    ELSE {<<c>> \o r : c \in Reorderings(Head(xs)), r \in ReorderedElements(Tail(xs))}

\* No two leaves of x flatten to one address.
DistinctAddresses(x) ==
    \A i, j \in 1..Len(Leaves(x, <<>>)) :
        LeafAddress(Leaves(x, <<>>)[i]) = LeafAddress(Leaves(x, <<>>)[j]) => i = j

\* What diff_dumps(o, n, only_changed) did: it raised, or its flattened maps
\* and its DiffResult.
SameOutcome(o, n) ==
    LET r == diff_dumps(o, n, only_changed) IN
    IF r.raised THEN pc = "raised"
    ELSE pc = "returned" /\ r.f_old = f_old /\ r.f_new = f_new /\ r.diffs = diffs

\* C28: reordering the mapping keys of either document changes neither the
\* flattened maps nor the DiffResult.
C28_OrderIndependent ==
    pc # "start" =>
        /\ \A o \in Reorderings(old) : SameOutcome(o, new)
        /\ \A n \in Reorderings(new) : SameOutcome(old, n)

\* C28 amended: the same for documents in which no two leaves flatten to one
\* address.
C28_OrderIndependentDistinctAddresses ==
    (pc # "start" /\ DistinctAddresses(old) /\ DistinctAddresses(new)) =>
        /\ \A o \in Reorderings(old) : SameOutcome(o, new)
        /\ \A n \in Reorderings(new) : SameOutcome(old, n)

\* A run on two documents without colliding addresses, the old one with two
\* interfaces and more than two orders of its keys, the DiffResult not empty.
C28_Witness ==
    /\ Returned
    /\ DistinctAddresses(old) /\ DistinctAddresses(new)
    /\ Cardinality(Reorderings(old)) > 2
    /\ Cardinality(ifaces_of(old).names) = 2
    /\ old # new
    /\ diffs # <<>>

-----------------------------------------------------------------------------
(* Purity *)

\* The arguments of the three functions.
Arguments == <<old, new, only_changed, fl_d, sv_path, sv_old, sv_new, sv_context>>

\* What the process has printed, written and returned to its caller.
ProcessOutputs == <<ncrit, console, md_report, exit_status>>

-----------------------------------------------------------------------------
(* The values of parse_numeric_map *)

Mapped == pc = "mapped"

\* The lines of a text, the line after the last newline included.
RECURSIVE TextLines(_)
TextLines(text) ==
    IF \A i \in 1..Len(text) : text[i] # "\n" THEN <<text>>
    ELSE LET n == CHOOSE i \in 1..Len(text) :
                      text[i] = "\n" /\ \A j \in 1..(i - 1) : text[j] # "\n"
         IN  <<SubSeq(text, 1, n - 1)>> \o TextLines(SubSeq(text, n + 1, Len(text)))

\* The "key: value" lines of nm_text.
KeyValueLines == SelectSeq(TextLines(nm_text), LAMBDA l : \E i \in 1..Len(l) : l[i] = ":")

FirstColon(l) == CHOOSE i \in 1..Len(l) : l[i] = ":" /\ \A j \in 1..(i - 1) : l[j] # ":"

\* The key a line is recorded under: the text before the first colon without
\* its surrounding blanks, "_" for each blank inside.
LineKey(l) ==
    LET k == Trimmed(SubSeq(l, 1, FirstColon(l) - 1)) IN
    [i \in 1..Len(k) |-> IF k[i] = " " THEN "_" ELSE k[i]]

\* The stripped text after the first colon.
LineValue(l) == Trimmed(SubSeq(l, FirstColon(l) + 1, Len(l)))

\* The value of the last line recorded under key k.
LastValue(k) ==
    LineValue(KeyValueLines[CHOOSE i \in 1..Len(KeyValueLines) :
        /\ LineKey(KeyValueLines[i]) = k
        /\ \A j \in (i + 1)..Len(KeyValueLines) : LineKey(KeyValueLines[j]) # k])

\* A decimal integer, signed or not, and a 0x-prefixed hexadecimal one.
IsDecimalText(v) == IsDecimalDigits(Unsigned(v))
IsHexText(v) ==
    Len(v) > 2 /\ v[1] = "0" /\ v[2] \in {"x", "X"} /\ IsHexDigits(SubSeq(v, 3, Len(v)))

\* The integer a decimal or hexadecimal text stands for.
TextInteger(v) ==
    IF IsHexText(v) THEN NumeralValue(SubSeq(v, 3, Len(v)), 16)
    ELSE IF v[1] = "-" THEN -NumeralValue(Unsigned(v), 10)
    ELSE NumeralValue(Unsigned(v), 10)

\* The text without the underscores that stand singly between two digits (or
\* between the 0x prefix and the first digit).
RECURSIVE Ungrouped(_)
Ungrouped(v) ==
    LET Single(i) ==
            /\ v[i] = "_"
            /\ DigitVal(v[i + 1]) < 16
            /\ DigitVal(v[i - 1]) < 16 \/ (i = 3 /\ v[1] = "0" /\ v[2] \in {"x", "X"})
    IN  IF \E i \in 2..(Len(v) - 1) : Single(i)
        THEN LET i == CHOOSE j \in 2..(Len(v) - 1) : Single(j)
             IN  Ungrouped(SubSeq(v, 1, i - 1) \o SubSeq(v, i + 1, Len(v)))
        ELSE v

\* The keys recorded are the keys of the "key: value" lines.
KeysRecorded == dict_keys(nm_ret) = {LineKey(KeyValueLines[i]) : i \in 1..Len(KeyValueLines)}

\* C27: each "key: value" line is recorded as an integer when its value is
\* decimal or 0x-prefixed hexadecimal and as the stripped text otherwise.
C27_DecimalOrHexElseText ==
    Mapped =>
        /\ KeysRecorded
        /\ \A k \in dict_keys(nm_ret) :
              dict_item(nm_ret, k) =
                  IF IsDecimalText(LastValue(k)) \/ IsHexText(LastValue(k))
                  THEN IntVal(TextInteger(LastValue(k)))
                  ELSE Str(LastValue(k))

\* C27 amended: the same, a value counting as decimal or hexadecimal also when
\* single underscores stand between its digits.
C27_UnderscoresBetweenDigits ==
    Mapped =>
        /\ KeysRecorded
        /\ \A k \in dict_keys(nm_ret) :
              dict_item(nm_ret, k) =
                  IF IsDecimalText(Ungrouped(LastValue(k))) \/ IsHexText(Ungrouped(LastValue(k)))
                  THEN IntVal(TextInteger(Ungrouped(LastValue(k))))
                  ELSE Str(LastValue(k))

\* The text of ethtool -g was parsed: a line without a colon, a value that is
\* text, a key recorded twice and a hexadecimal value in capitals.
C27_Witness ==
    /\ Mapped
    /\ Len(TextLines(nm_text)) > Len(KeyValueLines)
    /\ Len(KeyValueLines) > Cardinality(dict_keys(nm_ret))
    /\ \E k \in dict_keys(nm_ret) : dict_item(nm_ret, k) = IntVal(255)
    /\ \E k \in dict_keys(nm_ret) : dict_item(nm_ret, k).t = "str"

-----------------------------------------------------------------------------
(* The command runner *)

\* C23: sh never raises; a timeout gives ok = false and returncode 124, a
\* missing executable ok = false and returncode 127, any other exception
\* ok = false and returncode 1; and ok is true exactly when the command
\* completed with return code 0.
C23_ShNeverRaises ==
    /\ pc # "sh raised"
    /\ pc = "ran" =>
          /\ sh_run.kind = "TimeoutExpired" => ~sh_ret.ok /\ sh_ret.returncode = 124
          /\ sh_run.kind = "FileNotFoundError" => ~sh_ret.ok /\ sh_ret.returncode = 127
          /\ sh_run.kind \notin {"completed", "TimeoutExpired", "FileNotFoundError"} =>
                ~sh_ret.ok /\ sh_ret.returncode = 1
          /\ sh_ret.ok <=> (sh_run.kind = "completed" /\ sh_run.returncode = 0)

-----------------------------------------------------------------------------
(* Fault isolation of the collection run *)

\* C22: no failure while a field is obtained (a missing or unreadable file,
\* a missing tool, a command that fails or times out, a /proc/cmdline that
\* cannot be tokenised) ends the run: every category is still collected and
\* the snapshot is written.
C22_FaultIsolation == pc # "aborted"

-----------------------------------------------------------------------------
(* Attempts per field *)

\* The attempts i < j of a run that are made for the same field.
SameField(i, j) ==
    /\ i < j
    /\ calls[i].category = calls[j].category
    /\ calls[i].field = calls[j].field

\* What the first of two commands gave: its output, and whether it was ok.
FirstAttempt(cmd) == sh_if_which(env, cmd)

\* The three second attempts of the collector, each by another command or
\* file than the first, and the outcome of the first that leads to it.
Fallbacks ==
    {[field |-> "dmesg_snippets", first |-> <<"dmesg", "--color=never">>, second |-> <<"dmesg">>,
      after |-> ~truthy(FirstAttempt(<<"dmesg", "--color=never">>).stdout)],
     [field |-> "lscpu_raw", first |-> <<"lscpu", "-J">>, second |-> <<"lscpu">>,
      after |-> ~FirstAttempt(<<"lscpu", "-J">>).ok],
     [field |-> "kernel_cpufreq_default_governor", first |-> <<"/boot/config">>,
      second |-> <<"/proc/config.gz">>,
      after |-> ~(/\ truthy(read_text(env, "/boot/config"))
                  /\ startswith(read_text(env, "/boot/config").v, Lit.config_default_gov))]}

-----------------------------------------------------------------------------
(* Unread fields of the snapshot *)

\* The document has the keys of the path, one inside the other.
RECURSIVE HasKey(_, _)
HasKey(x, path) ==
    \/ path = <<>>
    \/ /\ x.t = "dict"
       /\ path[1] \in dict_keys(x)
       /\ HasKey(dict_item(x, path[1]), Tail(path))

\* The value at a path the document has.
RECURSIVE ValueAt(_, _)
ValueAt(x, path) == IF path = <<>> THEN x ELSE ValueAt(dict_item(x, path[1]), Tail(path))

\* Fields read from one file each, with the file.
FileFields ==
    [mac |-> [path |-> <<Lit.network, Lit.interfaces, Key.eth0, Key.mac>>,
              file |-> "/sys/class/net/eth0/address"],
     mtu |-> [path |-> <<Lit.network, Lit.interfaces, Key.eth0, Key.mtu>>,
              file |-> "/sys/class/net/eth0/mtu"],
     speed |-> [path |-> <<Lit.network, Lit.interfaces, Key.eth0, Key.speed>>,
                file |-> "/sys/class/net/eth0/speed"],
     clocksource |-> [path |-> <<Key.timekeeping, Key.clocksource_current>>,
                      file |-> "/sys/devices/system/clocksource/clocksource0/current_clocksource"],
     swappiness |-> [path |-> <<Key.memory, Key.swappiness>>, file |-> "/proc/sys/vm/swappiness"],
     governor |-> [path |-> <<Key.cpu_topology, Key.per_cpu_governors, Val.cpu0>>,
                   file |-> "/sys/devices/system/cpu/cpu0/cpufreq/scaling_governor"],
     ksm_run |-> [path |-> <<Key.memory, Key.ksm, Key.run>>, file |-> "/sys/kernel/mm/ksm/run"],
     affinity |-> [path |-> <<Lit.irq, Lit.smp_affinity_list, Key.irq24>>,
                   file |-> "/proc/irq/24/smp_affinity_list"],
     timer_migration |-> [path |-> <<Key.services_sysctl, Key.sysctl, Key.kernel_timer_migration>>,
                          file |-> "/proc/sys/kernel/timer_migration"]]

\* The fields that ethtool gives, and the one derived from a sysctl.
RingsField == <<Lit.network, Lit.interfaces, Key.eth0, Key.ethtool, Key.rings>>
AslrField == <<Key.services_sysctl, Key.aslr>>
StateField == <<Key.services_sysctl, Key.irqbalance, Key.state>>

\* The read of the field's file gave nothing.
Unread(f) == read_text(env, f.file).t = "NoneType"

\* The field is a key of the snapshot whose value is null exactly when the
\* file gave nothing.
NullWhenUnread(f) ==
    /\ HasKey(data, f.path)
    /\ ValueAt(data, f.path) = None <=> Unread(f)

-----------------------------------------------------------------------------
(* Independence of the category collectors *)

\* What the collector of a category returns when it is run by itself: with
\* no raw output of another collector and no result of another category.
Alone(c) ==
    CASE c = Key.kernel -> collect_kernel(env, EmptyMap)
      [] c = Key.cpu_topology -> collect_cpu_numa(env, EmptyMap)
      [] c = Key.affinity_isolation -> collect_affinity_isolation(env, EmptyDict)
      [] c = Key.timekeeping -> collect_timekeeping(env, EmptyMap)
      [] c = Key.memory -> collect_memory(env, EmptyMap)
      [] c = Lit.network -> collect_network(env, EmptyMap)
      [] c = Lit.irq -> collect_irqs(env, EmptyMap)
      [] c = Key.services_sysctl -> collect_services_sysctls(env, EmptyMap)

\* The categories collected so far.
Collected == dict_keys(data) \ {Key.meta}

\* The raw outputs a category's collector leaves when it is run by itself.
RawAlone(c) == IF "raw" \in DOMAIN Alone(c) THEN Alone(c).raw ELSE EmptyMap

\* Every raw output collected so far is the one that one collector leaves
\* by itself, and no two collectors leave an output of the same name.
RawOutputsAreSeparate ==
    LET left == [c \in Collected |-> RawAlone(c)]
    IN  /\ DOMAIN raw_blobs = UNION {DOMAIN left[c] : c \in Collected}
        /\ \A c \in Collected : \A n \in DOMAIN left[c] : raw_blobs[n] = left[c][n]
        /\ \A c1, c2 \in Collected : c1 # c2 => DOMAIN left[c1] \cap DOMAIN left[c2] = {}

=============================================================================
